---- MODULE Spec2Model ----
(***************************************************************************)
(* Model of the moving-average cost-basis ledger engine of tax_engine      *)
(* (TaxEngine, StockEvent, ProcessedEvent, YearlyTaxSummary).              *)
(*                                                                         *)
(* Representation of the Decimal values of the program:                    *)
(*   - money (price_usd, fx_rate, price_eur, avg_cost_eur, totals, gains)  *)
(*     is an integer number of ticks of 0.0001, the quantum every          *)
(*     quantize() of the engine rounds to;                                 *)
(*   - shares are an integer number of 1/ShareDen shares, so that          *)
(*     fractional share quantities (Decimal("1.5")) are covered;           *)
(*   - a calendar date is a day number in a calendar whose years all have  *)
(*     DaysPerYear days, Year(d) its calendar year.                        *)
(***************************************************************************)
EXTENDS Integers, Sequences, FiniteSets, TLC

VARIABLES
    state,              \* TaxEngine.state
    processed_events,   \* TaxEngine.processed_events
    yearly_summaries,   \* TaxEngine.yearly_summaries
    last,               \* the last call made on the engine and its outcome
    submitted,          \* the number of events handed to the engine so far
    returned,           \* what the last call returned to its caller
    summary,            \* a YearlyTaxSummary object a caller constructed
    _rate_cache,        \* ECBRateFetcher._rate_cache
    ecb,                \* the ECB service: whether it answers, and its observations
    event,              \* a StockEvent object a caller holds
    first_rate,         \* what the first successful resolved_fx_rate of `event` gave
    trace,              \* the calls of the resolver the last operation made
    callers             \* the callers inside get_rate: where each is, and its locals

engineVars == <<state, processed_events, yearly_summaries>>

resolverVars == <<_rate_cache, ecb, event, first_rate, trace, callers>>

vars == <<state, processed_events, yearly_summaries, last, submitted, returned, summary,
          _rate_cache, ecb, event, first_rate, trace, callers>>

(***************************************************************************)
(* Bounds of the model.                                                    *)
(***************************************************************************)
MaxDate == 2
MaxShares == 3
MaxPrice == 3
MaxEvents == 3
\* total_gains, and -total_losses, of the summaries built directly, in ticks
MaxGain == 6003
MaxLoss == 3
MaxLazyEvents == 2
MaxLazyShares == 2
\* shares of the events whose derived fields are read, in units of 1/ShareDen
MaxMoneyShares == 3
\* callers that may be inside get_rate at the same time
MaxCallers == 2
\* shares, in units of 1/ShareDen, and prices, in ticks, of the events of
\* positions bought at the smallest prices
MaxCostShares == 7
MaxCostPrice == 2
\* events of the lists given to prefetch_ecb_rates and then to process_all
MaxPrefetchEvents == 2

(***************************************************************************)
(* Decimal representation.                                                 *)
(***************************************************************************)
\* shares: Decimal -- share quantities are multiples of 1/ShareDen
ShareDen == 2
\* Decimal("0.0001"): ticks per currency unit
Quantum == 10000

Abs(x) == IF x < 0 THEN -x ELSE x

\* (num / den).quantize(..., ROUND_HALF_UP): nearest integer, ties away from zero
\* (quotient and remainder are taken apart to stay within 32-bit integers)
RoundHalfUp(num, den) ==
    LET whole == Abs(num) \div den
        rest == Abs(num) % den
        q == IF 2 * rest >= den THEN whole + 1 ELSE whole
    IN  IF num < 0 THEN -q ELSE q

(***************************************************************************)
(* models.py                                                               *)
(***************************************************************************)
EventType == {"VEST", "BUY", "SELL"}

\* datetime.date: the days of a year of the calendar
DaysPerYear == 366

\* date(year, month, day), the day given by its number in the year
Date(year, day) == year * DaysPerYear + (day - 1)

\* event_date.year
Year(d) == d \div DaysPerYear

\* The dates of the events: the last day of year 0 and the days that follow it
Dates == {Date(0, DaysPerYear) + k : k \in 0..(MaxDate - 1)}

\* The calendar years of the dates of the model
Years == {Year(d) : d \in Dates}

\* The events the callers of the model hand to the engine: strictly positive
\* shares and prices, an explicit fx_rate of 1.0000.
StockEvent ==
    [event_date : Dates, event_type : EventType, shares : 1..MaxShares,
     price_usd : 1..MaxPrice, fx_rate : {Quantum}]

\* StockEvent.resolved_fx_rate, for an event constructed with fx_rate
resolved_fx_rate(e) == e.fx_rate

\* Mutant of price_eur: the price is not converted.
PriceEurUnconverted(e) == e.price_usd

\* Mutant of price_eur: the digits after the fourth decimal are cut off.
PriceEurTruncated(e) == (e.price_usd * resolved_fx_rate(e)) \div Quantum

\* StockEvent.price_eur: (price_usd * resolved_fx_rate).quantize(Decimal("0.0001"),
\* ROUND_HALF_UP); the whole currency units of the price are multiplied apart
\* from its fraction, to stay within 32-bit integers
price_eur(e) ==
    (e.price_usd \div Quantum) * resolved_fx_rate(e)
        + RoundHalfUp((e.price_usd % Quantum) * resolved_fx_rate(e), Quantum)

\* StockEvent.total_value_eur
total_value_eur(e) == RoundHalfUp(e.shares * price_eur(e), ShareDen)

\* TaxEngineState()
TaxEngineState == [total_shares |-> 0, avg_cost_eur |-> 0, total_portfolio_cost_eur |-> 0]

\* YearlyTaxSummary(year=year)
YearlyTaxSummary(year) == [year |-> year, total_gains |-> 0, total_losses |-> 0]

\* Decimal("0.275"), in thousandths
KestRate == 275

\* YearlyTaxSummary.net_gain_loss
net_gain_loss(s) == s.total_gains + s.total_losses

\* YearlyTaxSummary.taxable_gain: max(Decimal("0"), net_gain_loss)
taxable_gain(s) == IF net_gain_loss(s) > 0 THEN net_gain_loss(s) ELSE 0

\* Mutant of kest_due: the tax is cut off after the second decimal.
KestDueRoundedDown(s) == (taxable_gain(s) * KestRate) \div (1000 * (Quantum \div 100))

\* YearlyTaxSummary.kest_due, in cents:
\* (taxable_gain * Decimal("0.275")).quantize(Decimal("0.01"), ROUND_HALF_UP)
kest_due(s) == RoundHalfUp(taxable_gain(s) * KestRate, 1000 * (Quantum \div 100))

\* ProcessedEvent(...)
ProcessedEvent(e, st, gain, change) ==
    [event |-> e,
     total_portfolio_cost_eur |-> st.total_portfolio_cost_eur,
     total_shares_after |-> st.total_shares,
     avg_cost_eur_after |-> st.avg_cost_eur,
     realized_gain_loss |-> gain,
     cost_change_eur |-> change]

(***************************************************************************)
(* tax_engine.py                                                           *)
(***************************************************************************)
\* The outcome of a call that raised nothing.
NoError == [event_date |-> 0, kind |-> "none", requested |-> 0, available |-> 0]

\* ValueError("Cannot sell {shares_sold} shares on {event_date}. Only {total_shares} shares held. ...")
InventoryExceeded(e, st) ==
    [event_date |-> e.event_date, kind |-> "InventoryExceeded",
     requested |-> e.shares, available |-> st.total_shares]

\* ValueError("Unknown event type: ...")
UnknownEventType(e) ==
    [event_date |-> e.event_date, kind |-> "UnknownEventType", requested |-> 0, available |-> 0]

\* TaxEngine.__init__: the engine is the triple of its three attributes
NewEngine ==
    [state |-> TaxEngineState,
     processed_events |-> <<>>,
     yearly_summaries |-> [y \in {} |-> YearlyTaxSummary(y)]]

\* Mutant of reset: the history and the summaries are kept.
ResetStateOnly(eng) ==
    [state |-> TaxEngineState,
     processed_events |-> eng.processed_events,
     yearly_summaries |-> eng.yearly_summaries]

\* Mutant of reset: the state and the history are cleared, the summaries kept.
ResetKeepsSummaries(eng) ==
    [state |-> TaxEngineState,
     processed_events |-> <<>>,
     yearly_summaries |-> eng.yearly_summaries]

\* Mutant of reset: the shares are set to 0, the average cost and the total
\* cost are left as they were.
ResetSharesOnly(eng) ==
    [state |-> [total_shares |-> 0, avg_cost_eur |-> eng.state.avg_cost_eur,
                total_portfolio_cost_eur |-> eng.state.total_portfolio_cost_eur],
     processed_events |-> <<>>,
     yearly_summaries |-> [y \in {} |-> YearlyTaxSummary(y)]]

\* TaxEngine.reset
reset(eng) ==
    [state |-> TaxEngineState,
     processed_events |-> <<>>,
     yearly_summaries |-> [y \in {} |-> YearlyTaxSummary(y)]]

\* Mutant of type_priority: BUY given the priority of VEST and VEST that of BUY.
TypePrioritySwapped(t) == CASE t = "VEST" -> 1 [] t = "BUY" -> 0 [] t = "SELL" -> 2

\* sort_key: (event_date, type_priority[event_type])
type_priority(t) == CASE t = "VEST" -> 0 [] t = "BUY" -> 1 [] t = "SELL" -> 2

\* Mutant of sort_key: the date alone, no type priority.
SortKeyDateOnly(e) == <<e.event_date, 0>>

sort_key(e) == <<e.event_date, type_priority(e.event_type)>>

\* tuple comparison of two sort keys
KeyLess(k1, k2) == k1[1] < k2[1] \/ (k1[1] = k2[1] /\ k1[2] < k2[2])

\* Mutant of InsertSorted: e goes before the elements of equal key.
RECURSIVE InsertBeforeEqual(_, _)
InsertBeforeEqual(sorted, e) ==
    IF sorted = <<>> THEN <<e>>
    ELSE IF ~KeyLess(sort_key(Head(sorted)), sort_key(e))
         THEN <<e>> \o sorted
         ELSE <<Head(sorted)>> \o InsertBeforeEqual(Tail(sorted), e)

\* One insertion of sorted(): e goes after every element whose key is not greater.
RECURSIVE InsertSorted(_, _)
InsertSorted(sorted, e) ==
    IF sorted = <<>> THEN <<e>>
    ELSE IF KeyLess(sort_key(e), sort_key(Head(sorted)))
         THEN <<e>> \o sorted
         ELSE <<Head(sorted)>> \o InsertSorted(Tail(sorted), e)

\* TaxEngine._sort_events: sorted(events, key=sort_key), a stable sort
RECURSIVE SortFrom(_, _)
SortFrom(sorted, events) ==
    IF events = <<>> THEN sorted
    ELSE SortFrom(InsertSorted(sorted, Head(events)), Tail(events))

\* Mutant of _sort_events: the events are left in input order.
EventsUnsorted(events) == events

_sort_events(events) == SortFrom(<<>>, events)

\* Mutant of _process_acquisition: the old total cost is the stored
\* total_portfolio_cost_eur, not total_shares * avg_cost_eur.
AcquisitionFromStoredTotal(st, e) ==
    LET new_cost_eur == total_value_eur(e)
        new_total_cost == (st.total_portfolio_cost_eur + new_cost_eur) * ShareDen
        new_total_shares == st.total_shares + e.shares
        new_state == [total_shares |-> new_total_shares,
                      avg_cost_eur |-> RoundHalfUp(new_total_cost, new_total_shares),
                      total_portfolio_cost_eur |-> RoundHalfUp(new_total_cost, ShareDen)]
    IN  [state |-> new_state, error |-> NoError,
         result |-> ProcessedEvent(e, new_state, 0, new_cost_eur)]

\* Mutant of _process_acquisition: the shares of a VEST come at no cost.
AcquisitionVestAtNoCost(st, e) ==
    LET new_cost_eur == IF e.event_type = "VEST" THEN 0 ELSE total_value_eur(e)
        new_total_cost == st.total_shares * st.avg_cost_eur + new_cost_eur * ShareDen
        new_total_shares == st.total_shares + e.shares
        new_state == [total_shares |-> new_total_shares,
                      avg_cost_eur |-> RoundHalfUp(new_total_cost, new_total_shares),
                      total_portfolio_cost_eur |-> RoundHalfUp(new_total_cost, ShareDen)]
    IN  [state |-> new_state, error |-> NoError,
         result |-> ProcessedEvent(e, new_state, 0, new_cost_eur)]

\* TaxEngine._process_acquisition: the new state and the record of a VEST or BUY
_process_acquisition(st, e) ==
    LET new_cost_eur == total_value_eur(e)
        \* in ticks / ShareDen, exact
        old_total_cost == st.total_shares * st.avg_cost_eur
        new_total_cost == old_total_cost + new_cost_eur * ShareDen
        new_total_shares == st.total_shares + e.shares
        new_avg_cost == IF new_total_shares > 0
                        THEN RoundHalfUp(new_total_cost, new_total_shares)
                        ELSE 0
        new_state == [total_shares |-> new_total_shares,
                      avg_cost_eur |-> new_avg_cost,
                      total_portfolio_cost_eur |-> RoundHalfUp(new_total_cost, ShareDen)]
    IN  [state |-> new_state, error |-> NoError,
         result |-> ProcessedEvent(e, new_state, 0, new_cost_eur)]

\* Mutant of _process_sell: no depot check.
SellUnchecked(st, e) ==
    LET cost_removed == RoundHalfUp(st.avg_cost_eur * e.shares, ShareDen)
        left == st.total_shares - e.shares
        new_state == IF left = 0
                     THEN [total_shares |-> 0, avg_cost_eur |-> 0,
                           total_portfolio_cost_eur |-> 0]
                     ELSE [total_shares |-> left,
                           avg_cost_eur |-> st.avg_cost_eur,
                           total_portfolio_cost_eur |->
                               st.total_portfolio_cost_eur - cost_removed]
    IN  [state |-> new_state, error |-> NoError,
         result |-> ProcessedEvent(e, new_state,
                        RoundHalfUp((price_eur(e) - st.avg_cost_eur) * e.shares, ShareDen),
                        -cost_removed)]

\* Mutant of _process_sell: avg_cost is recomputed from the total cost that is left.
SellRecomputesAverage(st, e) ==
    LET cost_removed == RoundHalfUp(st.avg_cost_eur * e.shares, ShareDen)
        left == st.total_shares - e.shares
        cost_left == st.total_portfolio_cost_eur - cost_removed
        new_state == IF left = 0
                     THEN [total_shares |-> 0, avg_cost_eur |-> 0,
                           total_portfolio_cost_eur |-> 0]
                     ELSE [total_shares |-> left,
                           avg_cost_eur |-> RoundHalfUp(cost_left * ShareDen, left),
                           total_portfolio_cost_eur |-> cost_left]
    IN  IF e.shares > st.total_shares
        THEN [state |-> st, error |-> InventoryExceeded(e, st),
              result |-> ProcessedEvent(e, st, 0, 0)]
        ELSE [state |-> new_state, error |-> NoError,
              result |-> ProcessedEvent(e, new_state,
                             RoundHalfUp((price_eur(e) - st.avg_cost_eur) * e.shares, ShareDen),
                             -cost_removed)]

\* Mutant of _process_sell: no special case for the sale of all the shares.
SellWithoutZeroReset(st, e) ==
    LET cost_removed == RoundHalfUp(st.avg_cost_eur * e.shares, ShareDen)
        new_state == [total_shares |-> st.total_shares - e.shares,
                      avg_cost_eur |-> st.avg_cost_eur,
                      total_portfolio_cost_eur |->
                          st.total_portfolio_cost_eur - cost_removed]
    IN  IF e.shares > st.total_shares
        THEN [state |-> st, error |-> InventoryExceeded(e, st),
              result |-> ProcessedEvent(e, st, 0, 0)]
        ELSE [state |-> new_state, error |-> NoError,
              result |-> ProcessedEvent(e, new_state,
                             RoundHalfUp((price_eur(e) - st.avg_cost_eur) * e.shares, ShareDen),
                             -cost_removed)]

\* Mutant of _process_sell: an oversell is clamped to the shares held.
SellClamped(st, e) ==
    LET sold == IF e.shares > st.total_shares THEN st.total_shares ELSE e.shares
        cost_removed == RoundHalfUp(st.avg_cost_eur * sold, ShareDen)
        left == st.total_shares - sold
        new_state == IF left = 0
                     THEN [total_shares |-> 0, avg_cost_eur |-> 0,
                           total_portfolio_cost_eur |-> 0]
                     ELSE [total_shares |-> left,
                           avg_cost_eur |-> st.avg_cost_eur,
                           total_portfolio_cost_eur |->
                               st.total_portfolio_cost_eur - cost_removed]
    IN  [state |-> new_state, error |-> NoError,
         result |-> ProcessedEvent(e, new_state,
                        RoundHalfUp((price_eur(e) - st.avg_cost_eur) * sold, ShareDen),
                        -cost_removed)]

\* Mutant of _process_sell: the gain is computed after the state was updated,
\* with the average cost the sale leaves.
SellGainAfterUpdate(st, e) ==
    LET cost_removed == RoundHalfUp(st.avg_cost_eur * e.shares, ShareDen)
        left == st.total_shares - e.shares
        new_state == IF left = 0
                     THEN [total_shares |-> 0, avg_cost_eur |-> 0,
                           total_portfolio_cost_eur |-> 0]
                     ELSE [total_shares |-> left,
                           avg_cost_eur |-> st.avg_cost_eur,
                           total_portfolio_cost_eur |->
                               st.total_portfolio_cost_eur - cost_removed]
    IN  IF e.shares > st.total_shares
        THEN [state |-> st, error |-> InventoryExceeded(e, st),
              result |-> ProcessedEvent(e, st, 0, 0)]
        ELSE [state |-> new_state, error |-> NoError,
              result |-> ProcessedEvent(e, new_state,
                             RoundHalfUp((price_eur(e) - new_state.avg_cost_eur) * e.shares,
                                         ShareDen),
                             -cost_removed)]

\* TaxEngine._process_sell: raises before any assignment when the depot check fails
_process_sell(st, e) ==
    LET shares_sold == e.shares
        sell_price_eur == price_eur(e)
        gain_loss == RoundHalfUp((sell_price_eur - st.avg_cost_eur) * shares_sold, ShareDen)
        cost_removed == RoundHalfUp(st.avg_cost_eur * shares_sold, ShareDen)
        left == st.total_shares - shares_sold
        new_state == IF left = 0
                     THEN [total_shares |-> 0, avg_cost_eur |-> 0,
                           total_portfolio_cost_eur |-> 0]
                     ELSE [total_shares |-> left,
                           avg_cost_eur |-> st.avg_cost_eur,
                           total_portfolio_cost_eur |->
                               st.total_portfolio_cost_eur - cost_removed]
    IN  IF shares_sold > st.total_shares
        THEN [state |-> st, error |-> InventoryExceeded(e, st),
              result |-> ProcessedEvent(e, st, 0, 0)]
        ELSE [state |-> new_state, error |-> NoError,
              result |-> ProcessedEvent(e, new_state, gain_loss, -cost_removed)]

\* Mutant of TrackYear: a new year starts with the net loss of the year before it.
TrackYearCarriesLoss(ys, year, gain) ==
    LET carried == IF year - 1 \in DOMAIN ys /\ net_gain_loss(ys[year - 1]) < 0
                   THEN net_gain_loss(ys[year - 1]) ELSE 0
        have == IF year \in DOMAIN ys THEN ys
                ELSE ys @@ (year :> [YearlyTaxSummary(year) EXCEPT !.total_losses = carried])
    IN  IF gain > 0
        THEN [have EXCEPT ![year].total_gains = @ + gain]
        ELSE IF gain < 0
             THEN [have EXCEPT ![year].total_losses = @ + gain]
             ELSE have

\* Mutant of TrackYear: the realized amount replaces the total instead of adding to it.
TrackYearOverwrites(ys, year, gain) ==
    LET have == IF year \in DOMAIN ys THEN ys ELSE ys @@ (year :> YearlyTaxSummary(year))
    IN  IF gain > 0
        THEN [have EXCEPT ![year].total_gains = gain]
        ELSE IF gain < 0
             THEN [have EXCEPT ![year].total_losses = gain]
             ELSE have

\* Mutant of TrackYear: every realized amount goes to total_gains, whatever its sign.
TrackYearSignBlind(ys, year, gain) ==
    LET have == IF year \in DOMAIN ys THEN ys ELSE ys @@ (year :> YearlyTaxSummary(year))
    IN  [have EXCEPT ![year].total_gains = @ + gain]

\* The yearly bookkeeping of process_event (lines 160-168)
TrackYear(ys, year, gain) ==
    LET have == IF year \in DOMAIN ys THEN ys ELSE ys @@ (year :> YearlyTaxSummary(year))
    IN  IF gain > 0
        THEN [have EXCEPT ![year].total_gains = @ + gain]
        ELSE IF gain < 0
             THEN [have EXCEPT ![year].total_losses = @ + gain]
             ELSE have

\* Mutant of process_event: the history keeps the record of the last event only.
ProcessEventKeepsLastOnly(eng, e) ==
    LET r == IF e.event_type \in {"VEST", "BUY"} THEN _process_acquisition(eng.state, e)
             ELSE IF e.event_type = "SELL" THEN _process_sell(eng.state, e)
             ELSE [state |-> eng.state, error |-> UnknownEventType(e),
                   result |-> ProcessedEvent(e, eng.state, 0, 0)]
    IN  IF r.error.kind # "none"
        THEN [eng |-> eng, error |-> r.error]
        ELSE [eng |-> [state |-> r.state,
                       processed_events |-> <<r.result>>,
                       yearly_summaries |->
                           TrackYear(eng.yearly_summaries, Year(e.event_date),
                                     r.result.realized_gain_loss)],
              error |-> NoError]

\* TaxEngine.process_event: the engine after the call and the error raised, if any
process_event(eng, e) ==
    LET r == IF e.event_type \in {"VEST", "BUY"} THEN _process_acquisition(eng.state, e)
             ELSE IF e.event_type = "SELL" THEN _process_sell(eng.state, e)
             ELSE [state |-> eng.state, error |-> UnknownEventType(e),
                   result |-> ProcessedEvent(e, eng.state, 0, 0)]
    IN  IF r.error.kind # "none"
        THEN [eng |-> eng, error |-> r.error]
        ELSE [eng |-> [state |-> r.state,
                       processed_events |-> Append(eng.processed_events, r.result),
                       yearly_summaries |->
                           TrackYear(eng.yearly_summaries, Year(e.event_date),
                                     r.result.realized_gain_loss)],
              error |-> NoError]

\* Mutant of RunEvents: the loop stops before the last event.
RECURSIVE RunAllButLast(_, _)
RunAllButLast(eng, events) ==
    IF Len(events) <= 1 THEN [eng |-> eng, error |-> NoError]
    ELSE LET r == process_event(eng, Head(events))
         IN  IF r.error.kind # "none" THEN r
             ELSE RunAllButLast(r.eng, Tail(events))

\* The loop of process_all: the first error ends it and leaves what was done
RECURSIVE RunEvents(_, _)
RunEvents(eng, events) ==
    IF events = <<>> THEN [eng |-> eng, error |-> NoError]
    ELSE LET r == process_event(eng, Head(events))
         IN  IF r.error.kind # "none" THEN r
             ELSE RunEvents(r.eng, Tail(events))

\* The places of the events whose kind has no entry in type_priority
UnknownKinds(events) == {i \in 1..Len(events) : events[i].event_type \notin EventType}

\* The first of a set of places
FirstOf(places) == CHOOSE i \in places : \A j \in places : i <= j

\* KeyError raised by type_priority[event.event_type] in sort_key
KeyError(e) ==
    [event_date |-> e.event_date, kind |-> "KeyError", requested |-> 0, available |-> 0]

\* TaxEngine.process_all: reset, then the sort, which computes the key of every
\* event before it orders them and raises at the first event without a key,
\* then the loop
process_all(eng, events) ==
    IF UnknownKinds(events) # {}
    THEN [eng |-> reset(eng), error |-> KeyError(events[FirstOf(UnknownKinds(events))])]
    ELSE RunEvents(reset(eng), _sort_events(events))

\* Mutant of get_yearly_summary: self.yearly_summaries[year], which makes the
\* defaultdict create, keep and return YearlyTaxSummary(year=0) for a missing year.
GetYearlySummaryByIndex(eng, year) ==
    IF year \in DOMAIN eng.yearly_summaries
    THEN [eng |-> eng, value |-> <<eng.yearly_summaries[year]>>]
    ELSE [eng |-> [eng EXCEPT !.yearly_summaries = @ @@ (year :> YearlyTaxSummary(0))],
          value |-> <<YearlyTaxSummary(0)>>]

\* TaxEngine.get_yearly_summary: self.yearly_summaries.get(year); the value is
\* <<>> for None and <<s>> for the summary s; dict.get creates no entry
get_yearly_summary(eng, year) ==
    IF year \in DOMAIN eng.yearly_summaries
    THEN [eng |-> eng, value |-> <<eng.yearly_summaries[year]>>]
    ELSE [eng |-> eng, value |-> <<>>]

\* sorted(values, key=lambda s: s.year)
RECURSIVE SortedByYear(_)
SortedByYear(summaries) ==
    IF summaries = {} THEN <<>>
    ELSE LET first == CHOOSE s \in summaries : \A t \in summaries : s.year <= t.year
         IN  <<first>> \o SortedByYear(summaries \ {first})

\* TaxEngine.get_all_yearly_summaries
get_all_yearly_summaries(eng) ==
    [eng |-> eng,
     value |-> SortedByYear({eng.yearly_summaries[y] : y \in DOMAIN eng.yearly_summaries})]

(***************************************************************************)
(* models.py and ecb_rates.py: events whose rate is resolved on demand,    *)
(* and the resolver ECBRateFetcher.                                        *)
(***************************************************************************)
\* fx_rate: Decimal | None; the model writes None as a number no rate takes
None == -1

\* StockEvent(event_date, event_type, shares, price_usd, fx_rate): the object as
\* the dataclass constructs it, _fx_rate_resolved not set
NewStockEvent(d, t, n, p, fx) ==
    [event_date |-> d, event_type |-> t, shares |-> n, price_usd |-> p,
     fx_rate |-> fx, _fx_rate_resolved |-> None]

\* _rate_cache: dict[date, Decimal] = {}
EmptyRates == [d \in {} |-> 0]

\* RuntimeError("Failed to fetch ECB rates: ...")
FetchFailed ==
    [event_date |-> 0, kind |-> "FetchFailed", requested |-> 0, available |-> 0]

\* ValueError("No ECB rate available for or before {target_date}")
NoRateAvailable(target_date) ==
    [event_date |-> target_date, kind |-> "NoRateAvailable", requested |-> 0,
     available |-> 0]

\* The service when the request fails
EcbDown == [up |-> FALSE, obs |-> EmptyRates]

\* Mutant of Invert: the digits after the fourth decimal are cut off.
InvertTruncated(eur_usd_rate) == (Quantum * Quantum) \div eur_usd_rate

\* (Decimal("1") / eur_usd_rate).quantize(Decimal("0.0001"), ROUND_HALF_UP)
Invert(eur_usd_rate) == RoundHalfUp(Quantum * Quantum, eur_usd_rate)

\* Mutant of _fetch_rates_for_period: a failed request is taken for an empty
\* answer.
FetchSwallowsFailure(service, start_date, end_date) ==
    [error |-> NoError,
     rates |-> [d \in {x \in DOMAIN service.obs :
                            service.up /\ start_date <= x /\ x <= end_date}
                   |-> Invert(service.obs[d])],
     period |-> <<start_date, end_date>>]

\* ECBRateFetcher._fetch_rates_for_period: the observations the service has for
\* the days of the period, each inverted; the request may fail. period is the
\* startPeriod and endPeriod of the URL requested.
_fetch_rates_for_period(service, start_date, end_date) ==
    IF ~service.up
    THEN [error |-> FetchFailed, rates |-> EmptyRates,
          period |-> <<start_date, end_date>>]
    ELSE [error |-> NoError,
          rates |-> [d \in {x \in DOMAIN service.obs : start_date <= x /\ x <= end_date}
                        |-> Invert(service.obs[d])],
          period |-> <<start_date, end_date>>]

\* dict.update
Updated(cache, rates) ==
    [d \in DOMAIN cache \cup DOMAIN rates |->
        IF d \in DOMAIN rates THEN rates[d] ELSE cache[d]]

\* target_date - timedelta(days=10)
WindowDays == 10

\* [d for d in rates.keys() if d <= target_date]
available_dates(rates, target_date) == {d \in DOMAIN rates : d <= target_date}

\* Mutant of closest_date: the earliest date of the answer, not the latest.
ClosestDateEarliest(rates, target_date) ==
    CHOOSE d \in available_dates(rates, target_date) :
        \A x \in available_dates(rates, target_date) : d <= x

\* sorted(..., reverse=True)[0]
closest_date(rates, target_date) ==
    CHOOSE d \in available_dates(rates, target_date) :
        \A x \in available_dates(rates, target_date) : x <= d

\* Mutant of GetRateFetched: the rate a date falls back to is returned but not
\* cached for the date.
GetRateFallbackUncached(cache, f, target_date) ==
    IF f.error.kind # "none"
    THEN [error |-> f.error, value |-> <<>>, cache |-> cache, fetch |-> 1,
          requests |-> <<f.period>>]
    ELSE IF available_dates(f.rates, target_date) # {}
    THEN [error |-> NoError,
          value |-> <<f.rates[closest_date(f.rates, target_date)]>>,
          cache |-> Updated(cache, f.rates), fetch |-> 1, requests |-> <<f.period>>]
    ELSE [error |-> NoRateAvailable(target_date), value |-> <<>>,
          cache |-> Updated(cache, f.rates), fetch |-> 1, requests |-> <<f.period>>]

\* get_rate from the answer f of _fetch_rates_for_period on (lines 90-105)
GetRateFetched(cache, f, target_date) ==
    IF f.error.kind # "none"
    THEN [error |-> f.error, value |-> <<>>, cache |-> cache, fetch |-> 1,
          requests |-> <<f.period>>]
    ELSE IF target_date \in DOMAIN f.rates
    THEN [error |-> NoError, value |-> <<f.rates[target_date]>>,
          cache |-> Updated(cache, f.rates), fetch |-> 1, requests |-> <<f.period>>]
    ELSE IF available_dates(f.rates, target_date) # {}
    THEN [error |-> NoError,
          value |-> <<f.rates[closest_date(f.rates, target_date)]>>,
          cache |-> Updated(Updated(cache, f.rates),
                            target_date :> f.rates[closest_date(f.rates, target_date)]),
          fetch |-> 1, requests |-> <<f.period>>]
    ELSE [error |-> NoRateAvailable(target_date), value |-> <<>>,
          cache |-> Updated(cache, f.rates), fetch |-> 1, requests |-> <<f.period>>]

\* ECBRateFetcher.get_rate: the rate (or the error), the cache after the call,
\* the number of requests made and their periods
get_rate(cache, service, target_date) ==
    IF target_date \in DOMAIN cache
    THEN [error |-> NoError, value |-> <<cache[target_date]>>, cache |-> cache,
          fetch |-> 0, requests |-> <<>>]
    ELSE GetRateFetched(cache,
                        _fetch_rates_for_period(service, target_date - WindowDays,
                                                target_date),
                        target_date)

\* Mutant of clear_cache: the entries of dates that fell back to an earlier
\* date stay.
ClearCacheKeepsFallbacks(cache) ==
    [d \in {x \in DOMAIN cache : \E y \in DOMAIN cache : y < x /\ cache[y] = cache[x]}
        |-> cache[d]]

\* ECBRateFetcher.clear_cache
clear_cache(cache) == EmptyRates

\* min(dates) - timedelta(days=10)  # Buffer for weekends
BufferDays == 10

\* The dates of the list
Elements(dates) == {dates[i] : i \in DOMAIN dates}

\* Mutant of min_date: the period starts at the earliest date asked for.
MinDateWithoutBuffer(dates) ==
    CHOOSE d \in Elements(dates) : \A x \in Elements(dates) : d <= x

\* min_date = min(dates) - timedelta(days=10)
min_date(dates) ==
    (CHOOSE d \in Elements(dates) : \A x \in Elements(dates) : d <= x) - BufferDays

\* max_date = max(dates)
max_date(dates) ==
    CHOOSE d \in Elements(dates) : \A x \in Elements(dates) : x <= d

\* What get_rates_bulk has when its loop starts: nothing mapped yet, the cache
\* updated with the answer f of the request
BulkFetched(cache, f) ==
    [error |-> NoError, value |-> <<EmptyRates>>, cache |-> Updated(cache, f.rates),
     fetch |-> 1, requests |-> <<f.period>>]

\* result[target_date] = rate, and with cached also
\* cls._rate_cache[target_date] = rate
Mapped(acc, target_date, rate, cached) ==
    [error |-> NoError,
     value |-> <<Updated(acc.value[1], target_date :> rate)>>,
     cache |-> IF cached THEN Updated(acc.cache, target_date :> rate) ELSE acc.cache,
     fetch |-> acc.fetch, requests |-> acc.requests]

\* raise ValueError(...) in the loop: no mapping is returned, the cache stays as
\* the loop left it
BulkRaised(acc, target_date) ==
    [error |-> NoRateAvailable(target_date), value |-> <<>>, cache |-> acc.cache,
     fetch |-> acc.fetch, requests |-> acc.requests]

\* The body of "for target_date in dates" (lines 127-140): the rate of the
\* date, or that of the nearest previous date of the answer
BulkStep(rates, acc, target_date) ==
    IF target_date \in DOMAIN rates
    THEN Mapped(acc, target_date, rates[target_date], FALSE)
    ELSE IF available_dates(rates, target_date) # {}
    THEN Mapped(acc, target_date, rates[closest_date(rates, target_date)], TRUE)
    ELSE BulkRaised(acc, target_date)

RECURSIVE BulkLoop(_, _, _, _)
\* "for target_date in dates" from the i-th date on; the first date without a
\* rate ends it
BulkLoop(rates, dates, i, acc) ==
    IF i > Len(dates) \/ acc.error.kind # "none"
    THEN acc
    ELSE BulkLoop(rates, dates, i + 1, BulkStep(rates, acc, dates[i]))

\* get_rates_bulk from the answer f of _fetch_rates_for_period on (lines 122-142)
BulkFromFetch(cache, f, dates) ==
    IF f.error.kind # "none"
    THEN [error |-> f.error, value |-> <<>>, cache |-> cache, fetch |-> 1,
          requests |-> <<f.period>>]
    ELSE BulkLoop(f.rates, dates, 1, BulkFetched(cache, f))

\* ECBRateFetcher.get_rates_bulk: the mapping (or the error), the cache after the
\* call, the number of requests made and their periods
get_rates_bulk(cache, service, dates) ==
    IF dates = <<>>
    THEN [error |-> NoError, value |-> <<EmptyRates>>, cache |-> cache, fetch |-> 0,
          requests |-> <<>>]
    ELSE BulkFromFetch(cache,
                       _fetch_rates_for_period(service, min_date(dates), max_date(dates)),
                       dates)

\* dates_needed = [e.event_date for e in events if e.fx_rate is None]
dates_needed(events) ==
    LET without_rate == SelectSeq(events, LAMBDA e : e.fx_rate = None)
    IN  [i \in 1..Len(without_rate) |-> without_rate[i].event_date]

\* Mutant of prefetch_ecb_rates: only the first of the dates needed is passed on.
PrefetchFirstNeeded(cache, service, events) ==
    IF dates_needed(events) # <<>>
    THEN [get_rates_bulk(cache, service, <<dates_needed(events)[1]>>) EXCEPT !.value = <<>>]
    ELSE [error |-> NoError, value |-> <<>>, cache |-> cache, fetch |-> 0,
          requests |-> <<>>]

\* prefetch_ecb_rates(events): get_rates_bulk on the dates of the events
\* constructed without fx_rate, if there are any; returns None
prefetch_ecb_rates(cache, service, events) ==
    IF dates_needed(events) # <<>>
    THEN [get_rates_bulk(cache, service, dates_needed(events)) EXCEPT !.value = <<>>]
    ELSE [error |-> NoError, value |-> <<>>, cache |-> cache, fetch |-> 0,
          requests |-> <<>>]

\* self._fx_rate_resolved = ECBRateFetcher.get_rate(self.event_date), g being
\* what get_rate gave
Memoized(obj, g) ==
    [event |-> IF g.error.kind = "none"
               THEN [obj EXCEPT !._fx_rate_resolved = g.value[1]] ELSE obj,
     error |-> g.error, value |-> g.value, cache |-> g.cache,
     fetch |-> g.fetch, get_rate |-> 1]

\* Mutant of ResolveFxRate: _fx_rate_resolved is set but never looked at.
ResolveFxRateNoMemo(obj, cache, service) ==
    IF obj.fx_rate # None
    THEN [event |-> [obj EXCEPT !._fx_rate_resolved = obj.fx_rate], error |-> NoError,
          value |-> <<obj.fx_rate>>,
          cache |-> cache, fetch |-> 0, get_rate |-> 0]
    ELSE Memoized(obj, get_rate(cache, service, obj.event_date))

\* StockEvent.resolved_fx_rate as the step it is on the event object: the value
\* (or the error), the object and the cache after the access, and the numbers of
\* get_rate calls and of requests it made
ResolveFxRate(obj, cache, service) ==
    IF obj._fx_rate_resolved # None
    THEN [event |-> obj, error |-> NoError, value |-> <<obj._fx_rate_resolved>>,
          cache |-> cache, fetch |-> 0, get_rate |-> 0]
    ELSE IF obj.fx_rate # None
    THEN [event |-> [obj EXCEPT !._fx_rate_resolved = obj.fx_rate], error |-> NoError,
          value |-> <<obj.fx_rate>>,
          cache |-> cache, fetch |-> 0, get_rate |-> 0]
    ELSE Memoized(obj, get_rate(cache, service, obj.event_date))

\* No access to resolved_fx_rate of the held event has succeeded yet
NotYetResolved == [value |-> <<>>, later |-> FALSE]

\* An operation that called neither get_rate nor the service
NoCalls == [fetch |-> 0, get_rate |-> 0]

\* The callers of get_rate
Callers == 1..MaxCallers

\* A caller that is not inside get_rate
Idle ==
    [error |-> NoError, value |-> <<>>, target_date |-> 0, rates |-> EmptyRates,
     fetch |-> 0, pc |-> "idle"]

\* Nobody is inside get_rate
NoCallers == [c \in Callers |-> Idle]

\* The resolver of a fresh process, and an event object with an explicit rate
InitResolver ==
    /\ _rate_cache = EmptyRates
    /\ ecb = EcbDown
    /\ event = NewStockEvent(Date(0, DaysPerYear), "VEST", ShareDen, Quantum, Quantum)
    /\ first_rate = NotYetResolved
    /\ trace = NoCalls
    /\ callers = NoCallers

(***************************************************************************)
(* tax_engine.py on event objects: the rate of an event is resolved when   *)
(* the engine first reads price_eur or total_value_eur of it.              *)
(***************************************************************************)
\* The event as the arithmetic of the engine sees it once its rate is resolved
WithRate(obj, rate) ==
    [event_date |-> obj.event_date, event_type |-> obj.event_type,
     shares |-> obj.shares, price_usd |-> obj.price_usd, fx_rate |-> rate]

\* The engine reads the rate of the event: in _process_acquisition
\* (total_value_eur, its first statement) and in _process_sell (price_eur, after
\* the depot check)
ReadsRate(eng, obj) ==
    \/ obj.event_type \in {"VEST", "BUY"}
    \/ obj.event_type = "SELL" /\ obj.shares <= eng.state.total_shares

\* The outcome pe of a process_event that raised before it read the rate
NotResolved(pe, obj, cache) ==
    [event |-> obj, eng |-> pe.eng, error |-> pe.error, cache |-> cache,
     fetch |-> 0, get_rate |-> 0]

\* The outcome pe of a process_event that read the rate rr: the record holds
\* the event object
Recorded(pe, rr) ==
    [event |-> rr.event,
     eng |-> [pe.eng EXCEPT
                 !.processed_events[Len(pe.eng.processed_events)].event = rr.event],
     error |-> NoError, cache |-> rr.cache,
     fetch |-> rr.fetch, get_rate |-> rr.get_rate]

\* process_event from the first read of the rate on, rr being what the read
\* gave: its error is raised before anything is assigned
Resolved(eng, rr) ==
    IF rr.error.kind # "none"
    THEN [event |-> rr.event, eng |-> eng, error |-> rr.error, cache |-> rr.cache,
          fetch |-> rr.fetch, get_rate |-> rr.get_rate]
    ELSE Recorded(process_event(eng, WithRate(rr.event, rr.value[1])), rr)

\* Mutant of process_event_lazy: the summary of the year of the event is created
\* before the event is processed.
ProcessEventLazyYearFirst(eng, obj, cache, service) ==
    IF ~ReadsRate(eng, obj)
    THEN NotResolved(process_event([eng EXCEPT !.yearly_summaries =
                                       TrackYear(@, Year(obj.event_date), 0)],
                                   WithRate(obj, None)),
                     obj, cache)
    ELSE Resolved([eng EXCEPT !.yearly_summaries = TrackYear(@, Year(obj.event_date), 0)],
                  ResolveFxRate(obj, cache, service))

\* TaxEngine.process_event on an event object: an event of unknown kind and a
\* SELL the depot check rejects raise without the rate being read.
process_event_lazy(eng, obj, cache, service) ==
    IF ~ReadsRate(eng, obj)
    THEN NotResolved(process_event(eng, WithRate(obj, None)), obj, cache)
    ELSE Resolved(eng, ResolveFxRate(obj, cache, service))

\* The loop of process_all has stopped at the event whose outcome is r
Stopped(r) ==
    [eng |-> r.eng, error |-> r.error, cache |-> r.cache,
     fetch |-> r.fetch, get_rate |-> r.get_rate]

\* The outcome of the loop: that of the rest of it, with the calls of the
\* resolver the event of outcome r made
Totalled(r, rest) ==
    [eng |-> rest.eng, error |-> rest.error, cache |-> rest.cache,
     fetch |-> r.fetch + rest.fetch, get_rate |-> r.get_rate + rest.get_rate]

RECURSIVE RunEventsLazy(_, _, _, _)
\* The loop of process_all after an event of outcome r: the first error ends it
AfterEvent(r, objs, service) ==
    IF r.error.kind # "none"
    THEN Stopped(r)
    ELSE Totalled(r, RunEventsLazy(r.eng, objs, r.cache, service))

\* The loop of process_all on event objects
RunEventsLazy(eng, objs, cache, service) ==
    IF objs = <<>>
    THEN [eng |-> eng, error |-> NoError, cache |-> cache, fetch |-> 0, get_rate |-> 0]
    ELSE AfterEvent(process_event_lazy(eng, Head(objs), cache, service), Tail(objs),
                    service)

\* TaxEngine.process_all on event objects
process_all_lazy(eng, objs, cache, service) ==
    IF UnknownKinds(objs) # {}
    THEN [eng |-> reset(eng), error |-> KeyError(objs[FirstOf(UnknownKinds(objs))]),
          cache |-> cache, fetch |-> 0, get_rate |-> 0]
    ELSE RunEventsLazy(reset(eng), _sort_events(objs), cache, service)

(***************************************************************************)
(* The engine as a state machine: one action per public operation.         *)
(***************************************************************************)
Engine == [state |-> state, processed_events |-> processed_events,
           yearly_summaries |-> yearly_summaries]

\* What the last call was: its operation, its argument, the error it raised and
\* the number of records the engine held when it was called.
Call(op, events, error) ==
    [events |-> events, error |-> error, op |-> op, prior |-> Len(processed_events)]

\* Lists of k events
EventLists(k) == [1..k -> StockEvent]

\* What a call returned: the operation, its argument when it is a number, and
\* the value (<<>> when the call returned None or raised)
Returned(op, arg, value) == [value |-> value, op |-> op, arg |-> arg]

Init ==
    /\ state = NewEngine.state
    /\ processed_events = NewEngine.processed_events
    /\ yearly_summaries = NewEngine.yearly_summaries
    /\ last = [events |-> <<>>, error |-> NoError, op |-> "init", prior |-> 0]
    /\ submitted = 0
    /\ returned = Returned("init", 0, <<>>)
    /\ summary = YearlyTaxSummary(0)
    /\ InitResolver

Become(eng) ==
    /\ state' = eng.state
    /\ processed_events' = eng.processed_events
    /\ yearly_summaries' = eng.yearly_summaries

Reset ==
    /\ Become(reset(Engine))
    /\ last' = Call("reset", <<>>, NoError)
    /\ returned' = Returned("reset", 0, <<>>)
    /\ UNCHANGED <<submitted, summary>>
    /\ UNCHANGED resolverVars

ProcessEvent ==
    /\ submitted < MaxEvents
    /\ \E e \in StockEvent :
          \E r \in {process_event(Engine, e)} :
              /\ Become(r.eng)
              /\ last' = Call("process_event", <<e>>, r.error)
              /\ submitted' = submitted + 1
              /\ returned' = Returned("process_event", 0,
                                      IF r.error.kind = "none"
                                      THEN <<r.eng.processed_events[Len(r.eng.processed_events)]>>
                                      ELSE <<>>)
              /\ UNCHANGED summary
              /\ UNCHANGED resolverVars

ProcessAll ==
    \E k \in 0..(MaxEvents - submitted) :
        \E events \in EventLists(k) :
            \E r \in {process_all(Engine, events)} :
                /\ Become(r.eng)
                /\ last' = Call("process_all", events, r.error)
                /\ submitted' = submitted + k
                /\ returned' = Returned("process_all", 0,
                                        IF r.error.kind = "none"
                                        THEN <<r.eng.processed_events>> ELSE <<>>)
                /\ UNCHANGED summary
                /\ UNCHANGED resolverVars

Next == Reset \/ ProcessEvent \/ ProcessAll

Spec == Init /\ [][Next]_vars

(***************************************************************************)
(* The engine with its queries: events are processed one at a time, and    *)
(* the summaries are read in between.                                      *)
(***************************************************************************)
\* The years a caller asks for: those of the dates of the model and the next
QueryYears == Years \cup {y + 1 : y \in Years}

GetYearlySummary ==
    \E year \in QueryYears :
        \E r \in {get_yearly_summary(Engine, year)} :
            /\ Become(r.eng)
            /\ returned' = Returned("get_yearly_summary", year, r.value)
            /\ UNCHANGED <<last, submitted, summary>>
            /\ UNCHANGED resolverVars

GetAllYearlySummaries ==
    \E r \in {get_all_yearly_summaries(Engine)} :
        /\ Become(r.eng)
        /\ returned' = Returned("get_all_yearly_summaries", 0, r.value)
        /\ UNCHANGED <<last, submitted, summary>>
        /\ UNCHANGED resolverVars

NextQuery == Reset \/ ProcessEvent \/ GetYearlySummary \/ GetAllYearlySummaries

SpecQuery == Init /\ [][NextQuery]_vars

(***************************************************************************)
(* A YearlyTaxSummary object on its own: constructed with totals, then     *)
(* read through its three derived properties.                              *)
(***************************************************************************)
\* The totals of 2021 and 2022 in the reference data, in ticks:
\* 530.98 of gains, 39.05 and 1890.84 of losses
SampleGains2021 == 5309800
SampleLosses2021 == 390500
SampleLosses2022 == 18908400

GainValues == (0..MaxGain) \cup {SampleGains2021}

LossValues == {-l : l \in (0..MaxLoss) \cup {SampleLosses2021, SampleLosses2022}}

\* YearlyTaxSummary(year=..., total_gains=..., total_losses=...)
SummaryObjects == [year : Years, total_gains : GainValues, total_losses : LossValues]

InitTax ==
    /\ state = NewEngine.state
    /\ processed_events = NewEngine.processed_events
    /\ yearly_summaries = NewEngine.yearly_summaries
    /\ last = [events |-> <<>>, error |-> NoError, op |-> "init", prior |-> 0]
    /\ submitted = 0
    /\ returned = Returned("init", 0, <<>>)
    /\ summary \in SummaryObjects
    /\ InitResolver

\* summary.net_gain_loss, summary.taxable_gain, summary.kest_due
ReadTax ==
    /\ returned' = Returned("kest_due", 0,
                            <<[net_gain_loss |-> net_gain_loss(summary),
                               taxable_gain |-> taxable_gain(summary),
                               kest_due |-> kest_due(summary)]>>)
    /\ UNCHANGED <<state, processed_events, yearly_summaries, last, submitted, summary>>
    /\ UNCHANGED resolverVars

NextTax == ReadTax

SpecTax == InitTax /\ [][NextTax]_vars

(***************************************************************************)
(* sample_data.py: the engine run on the reference events.                 *)
(***************************************************************************)
\* StockEvent(date(year, ...), kind, shares, Decimal("usd"), Decimal("fx"), notes):
\* the date by its day of the year, whole shares, the price in cents, the rate
\* in ticks
SampleEvent(year, day, kind, shares, usd_cents, fx) ==
    [event_date |-> Date(year, day), event_type |-> kind, shares |-> shares * ShareDen,
     price_usd |-> usd_cents * (Quantum \div 100), fx_rate |-> fx]

\* create_sample_events_with_manual_fx()
create_sample_events_with_manual_fx ==
    << SampleEvent(2020, 332, "BUY", 50, 3842, 8388),
       SampleEvent(2021, 34, "SELL", 50, 4885, 8322),
       SampleEvent(2021, 137, "VEST", 30, 4668, 8235),
       SampleEvent(2021, 137, "SELL", 25, 4482, 8235),
       SampleEvent(2021, 137, "SELL", 2, 4622, 8235),
       SampleEvent(2021, 148, "BUY", 50, 5174, 8236),
       SampleEvent(2021, 228, "VEST", 10, 6365, 8495),
       SampleEvent(2021, 228, "SELL", 5, 6125, 8495),
       SampleEvent(2021, 319, "VEST", 10, 7068, 8738),
       SampleEvent(2021, 320, "SELL", 5, 6928, 8797),
       SampleEvent(2021, 330, "BUY", 100, 6297, 8857),
       SampleEvent(2022, 147, "BUY", 105, 3819, 9327),
       SampleEvent(2022, 152, "SELL", 205, 3915, 9335) >>

\* The list with its i-th and j-th elements exchanged
Swapped(events, i, j) ==
    [k \in DOMAIN events |->
        IF k = i THEN events[j] ELSE IF k = j THEN events[i] ELSE events[k]]

\* The reference events as a caller may list them: the list of sample_data.py,
\* as it is or with two of its elements exchanged
SampleLists ==
    LET sample == create_sample_events_with_manual_fx
    IN  {Swapped(sample, i, j) : i \in DOMAIN sample, j \in DOMAIN sample}

\* process_all on the reference events
ProcessAllSample ==
    \E events \in SampleLists :
        \E r \in {process_all(Engine, events)} :
            /\ Become(r.eng)
            /\ last' = Call("process_all", events, r.error)
            /\ returned' = Returned("process_all", 0,
                                    IF r.error.kind = "none"
                                    THEN <<r.eng.processed_events>> ELSE <<>>)
            /\ UNCHANGED <<submitted, summary>>
            /\ UNCHANGED resolverVars

\* process_event on the reference events, one after the other in the order of
\* sample_data.py
ProcessEventSample ==
    /\ Len(processed_events) < Len(create_sample_events_with_manual_fx)
    /\ \E e \in {create_sample_events_with_manual_fx[Len(processed_events) + 1]} :
          \E r \in {process_event(Engine, e)} :
              /\ Become(r.eng)
              /\ last' = Call("process_event", <<e>>, r.error)
              /\ returned' = Returned("process_event", 0,
                                      IF r.error.kind = "none"
                                      THEN <<r.eng.processed_events[Len(r.eng.processed_events)]>>
                                      ELSE <<>>)
              /\ UNCHANGED <<submitted, summary>>
              /\ UNCHANGED resolverVars

NextSample == Reset \/ ProcessEventSample \/ ProcessAllSample

SpecSample == Init /\ [][NextSample]_vars

(***************************************************************************)
(* An event object and the resolver: a caller constructs events, reads     *)
(* resolved_fx_rate, calls the resolver itself and clears its cache, while *)
(* the service changes what it answers.                                    *)
(***************************************************************************)
\* The EUR/USD values the service publishes: 1.0000 and 1.2500
ObsValues == {Quantum, Quantum + Quantum \div 4}

\* The explicit rates events are constructed with
ExplicitRates == {Quantum}

\* What the service may answer: it is up or down, and has an observation for
\* some of the dates
EcbStates ==
    [up : BOOLEAN, obs : UNION {[D -> ObsValues] : D \in SUBSET Dates}]

InitRates ==
    /\ state = NewEngine.state
    /\ processed_events = NewEngine.processed_events
    /\ yearly_summaries = NewEngine.yearly_summaries
    /\ last = [events |-> <<>>, error |-> NoError, op |-> "init", prior |-> 0]
    /\ submitted = 0
    /\ returned = Returned("init", 0, <<>>)
    /\ summary = YearlyTaxSummary(0)
    /\ _rate_cache = EmptyRates
    /\ ecb \in EcbStates
    /\ \E d \in Dates : \E fx \in {None} \cup ExplicitRates :
          event = NewStockEvent(d, "VEST", ShareDen, Quantum, fx)
    /\ first_rate = NotYetResolved
    /\ trace = NoCalls
    /\ callers = NoCallers

\* event = StockEvent(...)
NewEvent ==
    /\ \E d \in Dates : \E fx \in {None} \cup ExplicitRates :
          event' = NewStockEvent(d, "VEST", ShareDen, Quantum, fx)
    /\ first_rate' = NotYetResolved
    /\ last' = Call("StockEvent", <<>>, NoError)
    /\ returned' = Returned("StockEvent", 0, <<>>)
    /\ trace' = NoCalls
    /\ UNCHANGED <<engineVars, submitted, summary, _rate_cache, ecb, callers>>

\* event.resolved_fx_rate
Access ==
    \E r \in {ResolveFxRate(event, _rate_cache, ecb)} :
        /\ event' = r.event
        /\ _rate_cache' = r.cache
        /\ last' = Call("resolved_fx_rate", <<>>, r.error)
        /\ returned' = Returned("resolved_fx_rate", 0, r.value)
        /\ trace' = [fetch |-> r.fetch, get_rate |-> r.get_rate]
        /\ first_rate' = IF first_rate.value = <<>>
                         THEN [value |-> r.value, later |-> FALSE]
                         ELSE [value |-> first_rate.value, later |-> TRUE]
        /\ UNCHANGED <<engineVars, submitted, summary, ecb, callers>>

\* ECBRateFetcher.get_rate(d)
GetRate ==
    \E d \in Dates :
        \E g \in {get_rate(_rate_cache, ecb, d)} :
            /\ _rate_cache' = g.cache
            /\ last' = Call("get_rate", <<>>, g.error)
            /\ returned' = Returned("get_rate", d, g.value)
            /\ trace' = [fetch |-> g.fetch, get_rate |-> 1]
            /\ UNCHANGED <<engineVars, submitted, summary, ecb, event, first_rate, callers>>

\* ECBRateFetcher.clear_cache()
ClearCache ==
    /\ _rate_cache' = clear_cache(_rate_cache)
    /\ last' = Call("clear_cache", <<>>, NoError)
    /\ returned' = Returned("clear_cache", 0, <<>>)
    /\ trace' = NoCalls
    /\ UNCHANGED <<engineVars, submitted, summary, ecb, event, first_rate, callers>>

\* The service goes down or comes up, or publishes or revises observations
Publish ==
    /\ ecb' \in EcbStates
    /\ UNCHANGED <<engineVars, last, submitted, returned, summary, _rate_cache, event,
                   first_rate, trace, callers>>

NextRates == NewEvent \/ Access \/ GetRate \/ ClearCache \/ Publish

SpecRates == InitRates /\ [][NextRates]_vars

(***************************************************************************)
(* The engine on event objects, with the resolver behind it: events with   *)
(* and without explicit rate, of the three kinds and of a kind the engine  *)
(* does not know, against a service that is down or has observations for   *)
(* some of the dates.                                                      *)
(***************************************************************************)
\* The events of this specification: one or two units of shares at 1.0000 USD
LazyEvent ==
    {NewStockEvent(d, t, n, Quantum, fx) :
        d \in Dates, t \in EventType \cup {"OTHER"}, n \in 1..MaxLazyShares,
        fx \in {None} \cup ExplicitRates}

InitLazy ==
    /\ state = NewEngine.state
    /\ processed_events = NewEngine.processed_events
    /\ yearly_summaries = NewEngine.yearly_summaries
    /\ last = [events |-> <<>>, error |-> NoError, op |-> "init", prior |-> 0]
    /\ submitted = 0
    /\ returned = Returned("init", 0, <<>>)
    /\ summary = YearlyTaxSummary(0)
    /\ _rate_cache = EmptyRates
    /\ ecb \in EcbStates
    /\ event = NewStockEvent(Date(0, DaysPerYear), "VEST", ShareDen, Quantum, Quantum)
    /\ first_rate = NotYetResolved
    /\ trace = NoCalls
    /\ callers = NoCallers

\* engine.process_event(StockEvent(...))
ProcessEventLazy ==
    /\ submitted < MaxLazyEvents
    /\ \E obj \in LazyEvent :
          \E r \in {process_event_lazy(Engine, obj, _rate_cache, ecb)} :
              /\ Become(r.eng)
              /\ _rate_cache' = r.cache
              /\ last' = Call("process_event", <<obj>>, r.error)
              /\ submitted' = submitted + 1
              /\ returned' = Returned("process_event", 0,
                                      IF r.error.kind = "none"
                                      THEN <<r.eng.processed_events[Len(r.eng.processed_events)]>>
                                      ELSE <<>>)
              /\ trace' = [fetch |-> r.fetch, get_rate |-> r.get_rate]
              /\ UNCHANGED <<summary, ecb, event, first_rate, callers>>

\* engine.process_all([StockEvent(...), ...])
ProcessAllLazy ==
    \E k \in 0..(MaxLazyEvents - submitted) :
        \E objs \in [1..k -> LazyEvent] :
            \E r \in {process_all_lazy(Engine, objs, _rate_cache, ecb)} :
                /\ Become(r.eng)
                /\ _rate_cache' = r.cache
                /\ last' = Call("process_all", objs, r.error)
                /\ submitted' = submitted + k
                /\ returned' = Returned("process_all", 0,
                                        IF r.error.kind = "none"
                                        THEN <<r.eng.processed_events>> ELSE <<>>)
                /\ trace' = [fetch |-> r.fetch, get_rate |-> r.get_rate]
                /\ UNCHANGED <<summary, ecb, event, first_rate, callers>>

NextLazy == Reset \/ ProcessEventLazy \/ ProcessAllLazy

SpecLazy == InitLazy /\ [][NextLazy]_vars

(***************************************************************************)
(* Vocabulary of the properties.                                           *)
(***************************************************************************)
IsAcquisition(e) == e.event_type \in {"VEST", "BUY"}

IsSell(e) == e.event_type = "SELL"

\* The event of the last process_event call
LastEvent == last.events[1]

Succeeded == last.error.kind = "none"

\* The sum of a sequence of numbers
RECURSIVE SumSeq(_)
SumSeq(seq) == IF seq = <<>> THEN 0 ELSE Head(seq) + SumSeq(Tail(seq))

\* The sum of the shares of the events of a list that satisfy Keep
SumShares(events, Keep(_)) ==
    SumSeq([i \in DOMAIN events |-> IF Keep(events[i]) THEN events[i].shares ELSE 0])

\* The shares held before the i-th record of the history was produced
HeldBefore(i) == IF i = 1 THEN 0 ELSE processed_events[i - 1].total_shares_after

\* e1 is to be processed strictly before e2: earlier date, or the same date and
\* VEST before BUY before SELL
OrderedBefore(e1, e2) ==
    \/ e1.event_date < e2.event_date
    \/ /\ e1.event_date = e2.event_date
       /\ \/ e1.event_type = "VEST" /\ e2.event_type \in {"BUY", "SELL"}
          \/ e1.event_type = "BUY" /\ e2.event_type = "SELL"

(***************************************************************************)
(* C1. Depot invariant: after any sequence of process_event and            *)
(* process_all calls on events with positive shares, rejected calls        *)
(* included, total_shares of the engine state and total_shares_after of    *)
(* every record of the history are never negative.                         *)
(***************************************************************************)
DepotInvariant ==
    /\ state.total_shares >= 0
    /\ \A i \in DOMAIN processed_events : processed_events[i].total_shares_after >= 0

\* A SELL was rejected after a position had been built and partly sold.
DepotInvariantWitness ==
    /\ last.error.kind = "InventoryExceeded"
    /\ state.total_shares > 0
    /\ \E i \in DOMAIN processed_events : IsSell(processed_events[i].event)

(***************************************************************************)
(* C2. Depot violation: a SELL of more shares than are held makes          *)
(* process_event fail with an inventory-exceeded error carrying the        *)
(* event's date, the requested and the available quantity, and leaves      *)
(* total_shares, avg_cost, total_portfolio_cost, the history and every     *)
(* yearly summary as they were (selling from an empty position included).  *)
(***************************************************************************)
DepotViolationRejected ==
    [][(/\ last'.op = "process_event"
        /\ IsSell(last'.events[1])
        /\ last'.events[1].shares > state.total_shares)
       => (/\ last'.error = [event_date |-> last'.events[1].event_date,
                             kind |-> "InventoryExceeded",
                             requested |-> last'.events[1].shares,
                             available |-> state.total_shares]
           /\ state' = state
           /\ processed_events' = processed_events
           /\ yearly_summaries' = yearly_summaries)]_vars

\* An oversell of a non-empty position was rejected by process_event.
DepotViolationWitness ==
    /\ last.op = "process_event"
    /\ last.error.kind = "InventoryExceeded"
    /\ IsSell(LastEvent)
    /\ LastEvent.shares > state.total_shares
    /\ state.total_shares > 0
    /\ state.avg_cost_eur > 0

\* The input of process_all holds exactly one SELL, an acquisition of its date,
\* and acquisitions on or before that date of at least the shares it sells
SellToCoverInput(events) ==
    \E s \in DOMAIN events :
        /\ IsSell(events[s])
        /\ \A k \in DOMAIN events : IsSell(events[k]) => k = s
        /\ \E a \in DOMAIN events :
              IsAcquisition(events[a]) /\ events[a].event_date = events[s].event_date
        /\ events[s].shares <=
              SumShares(events, LAMBDA e : IsAcquisition(e)
                                           /\ e.event_date <= events[s].event_date)

(***************************************************************************)
(* C3. Same-day sell-to-cover: when the input of process_all holds one     *)
(* SELL of q shares and an acquisition of the same date, q being at most   *)
(* the shares acquired on or before that date, processing succeeds         *)
(* whichever of the two comes first in the input, and the final            *)
(* total_shares is the shares acquired minus q.                            *)
(***************************************************************************)
SameDaySellToCover ==
    (last.op = "process_all" /\ SellToCoverInput(last.events))
    => /\ Succeeded
       /\ state.total_shares =
              SumShares(last.events, IsAcquisition) - SumShares(last.events, IsSell)

\* The SELL came first in the input, before the acquisition of its date.
SameDaySellToCoverWitness ==
    /\ last.op = "process_all"
    /\ SellToCoverInput(last.events)
    /\ Len(last.events) >= 2
    /\ IsSell(last.events[1])
    /\ IsAcquisition(last.events[2])
    /\ last.events[2].event_date = last.events[1].event_date
    /\ Succeeded
    /\ state.total_shares > 0

(***************************************************************************)
(* C4. Ordering rule: process_all processes the events, and returns their  *)
(* records, in ascending event_date order, and among the events of one     *)
(* date every VEST before every BUY and every BUY before every SELL,       *)
(* whatever the input order.                                               *)
(***************************************************************************)
OrderingRule ==
    last.op = "process_all"
    => /\ \A i, j \in DOMAIN processed_events :
              i < j => ~OrderedBefore(processed_events[j].event, processed_events[i].event)
       /\ Succeeded => Len(processed_events) = Len(last.events)

\* Three events given in the reverse of their processing order were processed.
OrderingRuleWitness ==
    /\ last.op = "process_all"
    /\ Succeeded
    /\ Len(last.events) = 3
    /\ OrderedBefore(last.events[3], last.events[2])
    /\ OrderedBefore(last.events[2], last.events[1])
    /\ last.events[3].event_type = "VEST"
    /\ last.events[2].event_type = "BUY"
    /\ last.events[2].event_date = last.events[3].event_date

\* The step is a process_event call that processed a SELL
SuccessfulSell ==
    /\ last'.op = "process_event"
    /\ IsSell(last'.events[1])
    /\ last'.error.kind = "none"

(***************************************************************************)
(* C5. Average-cost invariance under disposal.  As claimed: every SELL     *)
(* that process_event processes successfully leaves avg_cost exactly as    *)
(* it was.  This fails for the SELL of all the shares held, which sets     *)
(* avg_cost to 0.                                                          *)
(***************************************************************************)
AvgCostUnchangedByEverySell ==
    [][SuccessfulSell => state'.avg_cost_eur = state.avg_cost_eur]_vars

\* C5 as amended: a successful SELL of fewer shares than are held leaves
\* avg_cost exactly as it was; a SELL of all the shares held sets it to 0.
AvgCostUnchangedByPartialSell ==
    [][SuccessfulSell
       => IF last'.events[1].shares < state.total_shares
          THEN state'.avg_cost_eur = state.avg_cost_eur
          ELSE state'.avg_cost_eur = 0]_vars

\* A partial SELL was processed on a position with a non-zero average cost.
PartialSellWitness ==
    /\ last.op = "process_event"
    /\ IsSell(LastEvent)
    /\ Succeeded
    /\ state.total_shares > 0
    /\ state.avg_cost_eur > 0
    /\ state.avg_cost_eur # price_eur(LastEvent)

\* The first two records of the history are acquisitions
TwoAcquisitionsFromZero ==
    /\ Len(processed_events) >= 2
    /\ IsAcquisition(processed_events[1].event)
    /\ IsAcquisition(processed_events[2].event)

\* shares n1, n2 (in 1/ShareDen) and total costs c1, c2 (total_value_eur, in ticks)
N1 == processed_events[1].event.shares
N2 == processed_events[2].event.shares
C1Cost == processed_events[1].cost_change_eur
C2Cost == processed_events[2].cost_change_eur

(***************************************************************************)
(* C6. Moving-average formula.  As claimed: after two acquisitions from    *)
(* the zero position, of n1 and n2 shares and total costs c1 and c2,       *)
(* avg_cost is round4((c1 + c2) / (n1 + n2)).  This fails for fractional   *)
(* n1: the engine rebuilds the old total cost as n1 * round4(c1 / n1).     *)
(***************************************************************************)
MovingAverageOfTotals ==
    TwoAcquisitionsFromZero
    => processed_events[2].avg_cost_eur_after
           = RoundHalfUp((C1Cost + C2Cost) * ShareDen, N1 + N2)

\* C6 as amended: avg_cost is round4((n1 * a1 + c2) / (n1 + n2)) with
\* a1 = round4(c1 / n1) the average after the first acquisition, which is
\* round4((c1 + c2) / (n1 + n2)) whenever n1 * a1 = c1 (as for whole shares).
MovingAverageOfRoundedAverage ==
    TwoAcquisitionsFromZero
    => LET a1 == RoundHalfUp(C1Cost * ShareDen, N1)
       IN  /\ processed_events[1].avg_cost_eur_after = a1
           /\ processed_events[2].avg_cost_eur_after
                  = RoundHalfUp(N1 * a1 + C2Cost * ShareDen, N1 + N2)
           /\ N1 * a1 = C1Cost * ShareDen
                  => processed_events[2].avg_cost_eur_after
                         = RoundHalfUp((C1Cost + C2Cost) * ShareDen, N1 + N2)

\* Two acquisitions at different prices were processed from the zero position,
\* the first of a whole number of shares.
MovingAverageWitness ==
    /\ TwoAcquisitionsFromZero
    /\ Len(processed_events) = 2
    /\ N1 = ShareDen
    /\ price_eur(processed_events[1].event) # price_eur(processed_events[2].event)
    /\ state.avg_cost_eur = RoundHalfUp((C1Cost + C2Cost) * ShareDen, N1 + N2)
    /\ state.avg_cost_eur # processed_events[1].avg_cost_eur_after

(***************************************************************************)
(* C7. Full liquidation resets state: a SELL of exactly the shares held    *)
(* leaves total_shares, avg_cost and total_portfolio_cost at exactly 0,    *)
(* whatever acquisitions, partial disposals and roundings preceded it.     *)
(***************************************************************************)
FullLiquidationResets ==
    /\ \A i \in DOMAIN processed_events :
          (IsSell(processed_events[i].event)
           /\ processed_events[i].event.shares = HeldBefore(i))
          => /\ processed_events[i].total_shares_after = 0
             /\ processed_events[i].avg_cost_eur_after = 0
             /\ processed_events[i].total_portfolio_cost_eur = 0
    /\ (/\ processed_events # <<>>
        /\ IsSell(processed_events[Len(processed_events)].event)
        /\ processed_events[Len(processed_events)].event.shares
               = HeldBefore(Len(processed_events)))
       => state = TaxEngineState

\* All the shares were sold when the stored total cost differed from the cost
\* the SELL removes (avg_cost * shares, rounded).
FullLiquidationWitness ==
    /\ Len(processed_events) = 3
    /\ IsSell(processed_events[3].event)
    /\ processed_events[3].event.shares = HeldBefore(3)
    /\ processed_events[2].total_portfolio_cost_eur
           # -processed_events[3].cost_change_eur
    /\ state.total_shares = 0

\* The permutations of 1..n
Perms(n) == {f \in [1..n -> 1..n] : \A i, j \in 1..n : i # j => f[i] # f[j]}

\* The list events taken in the order f
Permuted(events, f) == [i \in DOMAIN events |-> events[f[i]]]

\* process_all on a new engine fails like the last call did, or succeeds as it
\* did and ends with the state and the summaries the engine now has
SameOutcome(events) ==
    LET r == process_all(NewEngine, events)
    IN  IF Succeeded
        THEN /\ r.error.kind = "none"
             /\ r.eng.state = state
             /\ r.eng.yearly_summaries = yearly_summaries
        ELSE r.error.kind # "none"

(***************************************************************************)
(* C8. Input order is irrelevant.  As claimed: for every list of events    *)
(* and every permutation of it, process_all fails for both or yields the   *)
(* same final state and the same yearly summaries.  This fails for two     *)
(* acquisitions of the same date and kind: they are processed in input     *)
(* order, and the rounding of avg_cost after each makes the order count.   *)
(***************************************************************************)
InputOrderIrrelevant ==
    last.op = "process_all"
    => \A f \in Perms(Len(last.events)) : SameOutcome(Permuted(last.events, f))

\* f keeps the relative order of the acquisitions of one date and one kind
KeepsAcquisitionOrder(events, f) ==
    \A i, j \in DOMAIN events :
        (/\ i < j
         /\ IsAcquisition(events[f[i]])
         /\ events[f[i]].event_type = events[f[j]].event_type
         /\ events[f[i]].event_date = events[f[j]].event_date)
        => f[i] < f[j]

\* C8 as amended: for every list of events and every permutation of it that
\* keeps the relative order of the acquisitions of the same date and kind,
\* process_all fails for both or yields the same final state and summaries.
InputOrderIrrelevantUpToTies ==
    last.op = "process_all"
    => \A f \in Perms(Len(last.events)) :
           KeepsAcquisitionOrder(last.events, f)
           => SameOutcome(Permuted(last.events, f))

\* Three events of two dates, two of them SELLs of one date at different
\* prices, were given latest first and processed.
InputOrderWitness ==
    /\ last.op = "process_all"
    /\ Succeeded
    /\ Len(last.events) = 3
    /\ IsSell(last.events[1])
    /\ IsSell(last.events[2])
    /\ last.events[1].event_date = last.events[2].event_date
    /\ last.events[1].price_usd # last.events[2].price_usd
    /\ IsAcquisition(last.events[3])
    /\ last.events[3].event_date < last.events[1].event_date
    /\ state.total_shares > 0

\* f arranges events by date and kind, equal ones by their place in the input
StableArrangement(events, f) ==
    \A i, j \in DOMAIN events :
        i < j => \/ OrderedBefore(events[f[i]], events[f[j]])
                 \/ /\ ~OrderedBefore(events[f[j]], events[f[i]])
                    /\ f[i] < f[j]

(***************************************************************************)
(* C9. The sort of process_all is stable: events of the same date and      *)
(* kind are processed, and appear in the output, in their relative input   *)
(* order.                                                                  *)
(***************************************************************************)
StableSort ==
    last.op = "process_all"
    => \E f \in Perms(Len(last.events)) :
           /\ StableArrangement(last.events, f)
           /\ \A i \in DOMAIN processed_events :
                  processed_events[i].event = last.events[f[i]]

\* Two different events of the same date and kind were given after an event
\* that is processed after them, and all three were processed.
StableSortWitness ==
    /\ last.op = "process_all"
    /\ Succeeded
    /\ Len(last.events) = 3
    /\ last.events[2].event_date = last.events[3].event_date
    /\ last.events[2].event_type = last.events[3].event_type
    /\ last.events[2] # last.events[3]
    /\ OrderedBefore(last.events[2], last.events[1])
    /\ Len(processed_events) = 3

(***************************************************************************)
(* C10. process_all resets before processing: the state, the history and   *)
(* the summaries it leaves depend on its argument alone, not on what the   *)
(* engine processed before; calling it twice with the same events gives    *)
(* what calling it once gives.                                             *)
(***************************************************************************)
ProcessAllResetsFirst ==
    last.op = "process_all"
    => LET r == RunEvents(NewEngine, _sort_events(last.events))
       IN  /\ state = r.eng.state
           /\ processed_events = r.eng.processed_events
           /\ yearly_summaries = r.eng.yearly_summaries
           /\ last.error = r.error

\* process_all was given one event on an engine that held records already,
\* and left the record of that event alone.
ProcessAllResetsFirstWitness ==
    /\ last.op = "process_all"
    /\ last.prior > 0
    /\ Succeeded
    /\ Len(last.events) = 1
    /\ Len(processed_events) = 1
    /\ DOMAIN yearly_summaries = {Year(last.events[1].event_date)}

(***************************************************************************)
(* C13. One record per input event: a successful process_all leaves (and   *)
(* returns) exactly as many records as there are input events, the         *)
(* originating events of the records being a permutation of the input;     *)
(* the empty input gives no record and the zero state.                     *)
(***************************************************************************)
OneRecordPerEvent ==
    (last.op = "process_all" /\ Succeeded)
    => /\ Len(processed_events) = Len(last.events)
       /\ \E f \in Perms(Len(last.events)) :
              \A i \in DOMAIN last.events : processed_events[f[i]].event = last.events[i]
       /\ last.events = <<>>
              => (processed_events = <<>> /\ state = TaxEngineState)

\* Three events, two of them equal, were given out of order and processed.
OneRecordPerEventWitness ==
    /\ last.op = "process_all"
    /\ Succeeded
    /\ Len(last.events) = 3
    /\ last.events[1] = last.events[3]
    /\ OrderedBefore(last.events[2], last.events[1])
    /\ Len(processed_events) = 3

\* The positive, and the negative, realized amounts of the records dated in year y
GainsOf(y) ==
    SumSeq([i \in DOMAIN processed_events |->
               IF /\ Year(processed_events[i].event.event_date) = y
                  /\ processed_events[i].realized_gain_loss > 0
               THEN processed_events[i].realized_gain_loss ELSE 0])

LossesOf(y) ==
    SumSeq([i \in DOMAIN processed_events |->
               IF /\ Year(processed_events[i].event.event_date) = y
                  /\ processed_events[i].realized_gain_loss < 0
               THEN processed_events[i].realized_gain_loss ELSE 0])

(***************************************************************************)
(* C14. Yearly accumulation: for every year, total_gains is the sum of     *)
(* the strictly positive realized_gain_loss of the records of the history  *)
(* dated in that year and total_losses the sum of the strictly negative    *)
(* ones; the records of acquisitions carry a zero realized_gain_loss and   *)
(* so change neither.                                                      *)
(***************************************************************************)
YearlyAccumulation ==
    /\ \A y \in DOMAIN yearly_summaries :
          /\ yearly_summaries[y].total_gains = GainsOf(y)
          /\ yearly_summaries[y].total_losses = LossesOf(y)
    /\ \A y \in Years \ DOMAIN yearly_summaries : GainsOf(y) = 0 /\ LossesOf(y) = 0
    /\ \A i \in DOMAIN processed_events :
          IsAcquisition(processed_events[i].event)
          => processed_events[i].realized_gain_loss = 0

\* One year saw an acquisition, a disposal at a loss and a disposal at a gain.
YearlyAccumulationWitness ==
    \E y \in DOMAIN yearly_summaries :
        /\ yearly_summaries[y].total_gains > 0
        /\ yearly_summaries[y].total_losses < 0
        /\ Len(processed_events) = 3
        /\ IsAcquisition(processed_events[1].event)

\* The step is a process_event call that processed its event
ProcessedOne == last'.op = "process_event" /\ last'.error.kind = "none"

(***************************************************************************)
(* C17. No cross-year carryforward: processing an event dated in year Y    *)
(* leaves total_gains, total_losses, taxable_gain and tax_due of every     *)
(* other year unchanged, and the taxable gain of every year is             *)
(* max(0, gains + losses) of the records of that year alone, so that a     *)
(* net loss of year Y never lowers the taxable gain of year Y+1.           *)
(***************************************************************************)
NoCarryForward ==
    [][ProcessedOne
       => /\ \A z \in DOMAIN yearly_summaries :
                 z # Year(last'.events[1].event_date)
                 => /\ z \in DOMAIN yearly_summaries'
                    /\ yearly_summaries'[z] = yearly_summaries[z]
                    /\ taxable_gain(yearly_summaries'[z]) = taxable_gain(yearly_summaries[z])
                    /\ kest_due(yearly_summaries'[z]) = kest_due(yearly_summaries[z])
          /\ \A z \in DOMAIN yearly_summaries' :
                 taxable_gain(yearly_summaries'[z])
                     = IF GainsOf(z)' + LossesOf(z)' > 0
                       THEN GainsOf(z)' + LossesOf(z)' ELSE 0]_vars

\* A disposal at a gain was processed in the year after a year of net loss,
\* and the whole gain is taxable.
NoCarryForwardWitness ==
    /\ last.op = "process_event"
    /\ Succeeded
    /\ IsSell(LastEvent)
    /\ \E y \in DOMAIN yearly_summaries :
          /\ y + 1 = Year(LastEvent.event_date)
          /\ y + 1 \in DOMAIN yearly_summaries
          /\ net_gain_loss(yearly_summaries[y]) < 0
          /\ yearly_summaries[y + 1].total_gains > 0
          /\ taxable_gain(yearly_summaries[y + 1]) = yearly_summaries[y + 1].total_gains

(***************************************************************************)
(* C18. Monotone accumulation: between two resets, for every year          *)
(* total_gains is >= 0 and never decreases from one processed event to     *)
(* the next, and total_losses is <= 0 and never increases.                 *)
(***************************************************************************)
MonotoneAccumulation ==
    [][ProcessedOne
       => /\ \A y \in DOMAIN yearly_summaries :
                 /\ y \in DOMAIN yearly_summaries'
                 /\ yearly_summaries'[y].total_gains >= yearly_summaries[y].total_gains
                 /\ yearly_summaries'[y].total_losses <= yearly_summaries[y].total_losses
          /\ \A y \in DOMAIN yearly_summaries' :
                 /\ yearly_summaries'[y].total_gains >= 0
                 /\ yearly_summaries'[y].total_losses <= 0]_vars

\* A second disposal at a gain, smaller than the first, was processed in a year.
MonotoneAccumulationWitness ==
    /\ last.op = "process_event"
    /\ Succeeded
    /\ Len(processed_events) = 3
    /\ processed_events[3].realized_gain_loss > 0
    /\ processed_events[2].realized_gain_loss > processed_events[3].realized_gain_loss
    /\ Year(processed_events[2].event.event_date) = Year(LastEvent.event_date)
    /\ yearly_summaries[Year(LastEvent.event_date)].total_gains
           = processed_events[2].realized_gain_loss + processed_events[3].realized_gain_loss

\* An event dated in year y is in the history
ProcessedIn(y) ==
    \E i \in DOMAIN processed_events : Year(processed_events[i].event.event_date) = y

(***************************************************************************)
(* C15. Summary existence: a summary for year Y exists if and only if an   *)
(* event dated in Y was processed since the last reset, and it carries     *)
(* the year number Y; get_yearly_summary returns it, or nothing for a      *)
(* year without one, and creates none; get_all_yearly_summaries returns    *)
(* one summary per such year, in ascending order of year.                  *)
(***************************************************************************)
SummaryExistence ==
    /\ \A y \in QueryYears : y \in DOMAIN yearly_summaries <=> ProcessedIn(y)
    /\ DOMAIN yearly_summaries \subseteq QueryYears
    /\ \A y \in DOMAIN yearly_summaries : yearly_summaries[y].year = y
    /\ returned.op = "get_yearly_summary"
          => IF ProcessedIn(returned.arg)
             THEN returned.value = <<yearly_summaries[returned.arg]>>
             ELSE returned.value = <<>>
    /\ returned.op = "get_all_yearly_summaries"
          => /\ Len(returned.value) = Cardinality({y \in QueryYears : ProcessedIn(y)})
             /\ \A i \in DOMAIN returned.value :
                    /\ ProcessedIn(returned.value[i].year)
                    /\ returned.value[i] = yearly_summaries[returned.value[i].year]
             /\ \A i, j \in DOMAIN returned.value :
                    i < j => returned.value[i].year < returned.value[j].year

\* get_yearly_summary was asked for a year without events, after a year of
\* acquisitions only and a later year with a disposal had their summaries.
SummaryExistenceWitness ==
    /\ returned.op = "get_yearly_summary"
    /\ returned.value = <<>>
    /\ ~ProcessedIn(returned.arg)
    /\ Cardinality(DOMAIN yearly_summaries) = 2
    /\ \E y \in DOMAIN yearly_summaries :
          /\ \A i \in DOMAIN processed_events :
                 Year(processed_events[i].event.event_date) = y
                 => IsAcquisition(processed_events[i].event)
          /\ yearly_summaries[y] = YearlyTaxSummary(y)

(***************************************************************************)
(* C16. Tax derivation: net_gain_loss = total_gains + total_losses,        *)
(* taxable_gain = max(0, net_gain_loss), and tax_due is                    *)
(* taxable_gain * 0.275 rounded half-up to the cent: it is never negative  *)
(* and is 0 when the net is zero or a loss; gains 530.98 with losses       *)
(* -39.05 give net 491.93 and tax 135.28, losses -1890.84 alone tax 0.00.  *)
(***************************************************************************)
TaxDerivation ==
    returned.op = "kest_due"
    => LET read == returned.value[1]
           net == summary.total_gains + summary.total_losses
           \* taxable_gain * 0.275, in thousandths of a tick
           exact == read.taxable_gain * KestRate
           \* one cent and half a cent, in thousandths of a tick
           cent == 1000 * (Quantum \div 100)
       IN  /\ read.net_gain_loss = net
           /\ read.taxable_gain = IF net > 0 THEN net ELSE 0
           /\ read.kest_due * cent - cent \div 2 <= exact
           /\ exact < read.kest_due * cent + cent \div 2
           /\ read.kest_due >= 0
           /\ net <= 0 => read.kest_due = 0
           /\ (summary.total_gains = SampleGains2021
               /\ summary.total_losses = -SampleLosses2021)
              => (read.net_gain_loss = 4919300 /\ read.kest_due = 13528)
           /\ (summary.total_gains = 0 /\ summary.total_losses = -SampleLosses2022)
              => (read.taxable_gain = 0 /\ read.kest_due = 0)

\* The tax of a summary whose taxable gain times 0.275 ends in half a cent was
\* read: gains 0.6003 and losses -0.0003 give 0.165, which is 0.17.
TaxDerivationWitness ==
    /\ returned.op = "kest_due"
    /\ summary.total_gains = 6003
    /\ summary.total_losses = -3
    /\ returned.value[1].kest_due = 17

\* a and b differ by at most by
Within(a, b, by) == Abs(a - b) <= by

(***************************************************************************)
(* C19. End-to-end reference scenario: process_all on the 13 reference     *)
(* events, in whatever order they are listed, raises no error, leaves 13   *)
(* records and ends with 63 shares, avg_cost 45.7701 and                   *)
(* total_portfolio_cost 2883.5266 (within 0.0001), with summaries for      *)
(* 2020 (no gains, no losses), 2021 (net gain 491.93 and tax 135.28,       *)
(* within 0.01) and 2022 (net loss -1890.84, tax 0.00).                    *)
(***************************************************************************)
ReferenceScenario ==
    last.op = "process_all"
    => /\ Succeeded
       /\ returned.value # <<>>
       /\ Len(returned.value[1]) = 13
       /\ Len(processed_events) = 13
       /\ state.total_shares = 63 * ShareDen
       /\ Within(state.avg_cost_eur, 457701, 1)
       /\ Within(state.total_portfolio_cost_eur, 28835266, 1)
       /\ DOMAIN yearly_summaries = {2020, 2021, 2022}
       /\ yearly_summaries[2020].total_gains = 0
       /\ yearly_summaries[2020].total_losses = 0
       /\ kest_due(yearly_summaries[2020]) = 0
       /\ Within(net_gain_loss(yearly_summaries[2021]), 4919300, Quantum \div 100)
       /\ Within(kest_due(yearly_summaries[2021]), 13528, 1)
       /\ Within(net_gain_loss(yearly_summaries[2022]), -18908400, Quantum \div 100)
       /\ kest_due(yearly_summaries[2022]) = 0

\* The reference events were processed from a list that had the SELLs of
\* 2021-05-17 before the VEST of that day.
ReferenceScenarioWitness ==
    /\ last.op = "process_all"
    /\ Succeeded
    /\ last.events[3].event_type = "SELL"
    /\ last.events[5].event_type = "VEST"
    /\ last.events[3].event_date = last.events[5].event_date
    /\ Len(processed_events) = 13
    /\ state.total_shares = 63 * ShareDen

(***************************************************************************)
(* C20. FX-rate memoization: once resolved_fx_rate of an event has given a *)
(* value, every later access on that event gives the same value and calls  *)
(* neither get_rate nor the service, whatever the resolver cache holds by  *)
(* then; an event constructed with an explicit fx_rate resolves to that    *)
(* rate without any call of the resolver.                                  *)
(***************************************************************************)
RateMemoized ==
    returned.op = "resolved_fx_rate"
    => /\ first_rate.later
          => /\ last.error = NoError
             /\ returned.value = first_rate.value
             /\ trace = NoCalls
       /\ event.fx_rate # None
          => /\ last.error = NoError
             /\ returned.value = <<event.fx_rate>>
             /\ trace = NoCalls

\* A later access on an event without explicit rate, at a time when the cache
\* holds another rate for the date of the event than the access gave at first.
RateMemoizedWitness ==
    /\ returned.op = "resolved_fx_rate"
    /\ first_rate.later
    /\ event.fx_rate = None
    /\ event.event_date \in DOMAIN _rate_cache
    /\ _rate_cache[event.event_date] # first_rate.value[1]
    /\ returned.value = first_rate.value

(***************************************************************************)
(* C11. Per-event atomicity: a process_event that fails (depot violation,  *)
(* unknown kind, or an error of the rate lookup or of the request raised   *)
(* while the rate of the event is resolved) leaves the ledger state, the   *)
(* history and every yearly summary as they were before the call, and      *)
(* creates no summary for the year of the failed event.                    *)
(***************************************************************************)
PerEventAtomicity ==
    [][(last'.op = "process_event" /\ last'.error.kind # "none")
        => /\ state' = state
           /\ processed_events' = processed_events
           /\ yearly_summaries' = yearly_summaries]_vars

\* A process_event that failed with the lookup error of the resolver after one
\* event had been processed, the failed event being of a year without summary.
PerEventAtomicityWitness ==
    /\ last.op = "process_event"
    /\ last.error.kind = "NoRateAvailable"
    /\ last.events[1].fx_rate = None
    /\ Len(processed_events) = 1
    /\ Year(last.events[1].event_date) \notin DOMAIN yearly_summaries
    /\ trace.fetch = 1

\* The arrangement f puts the events in the order process_all processes them
\* in: by date, on one date by the priority of the kind where both kinds have
\* one, and in input order where date and kind are the same
InSortedOrder(events, f) ==
    \A i, j \in DOMAIN events :
        i < j =>
            LET a == events[f[i]]
                b == events[f[j]]
            IN  /\ a.event_date <= b.event_date
                /\ (a.event_date = b.event_date /\ {a.event_type, b.event_type} \subseteq EventType)
                   => type_priority(a.event_type) <= type_priority(b.event_type)
                /\ (a.event_date = b.event_date /\ a.event_type = b.event_type)
                   => f[i] < f[j]

\* The errors that are fatal to an event
FatalErrors == {"InventoryExceeded", "UnknownEventType", "NoRateAvailable", "FetchFailed"}

(***************************************************************************)
(* C12. Batch abort: a process_all that fails surfaces the fatal error of  *)
(* the k-th event of the sorted order (inventory exceeded, unknown kind,   *)
(* rate lookup or request error), the first k-1 sorted events having been  *)
(* processed without error, and leaves the engine with exactly the state,  *)
(* the history and the summaries those k-1 events produce.                 *)
(***************************************************************************)
BatchAbort ==
    [][(last'.op = "process_all" /\ last'.error.kind # "none")
        => \E f \in Perms(Len(last'.events)) :
             \E k \in 1..Len(last'.events) :
               LET sorted == Permuted(last'.events, f)
                   before == RunEventsLazy(NewEngine, SubSeq(sorted, 1, k - 1),
                                           _rate_cache, ecb)
                   at == process_event_lazy(before.eng, sorted[k], before.cache, ecb)
               IN  /\ InSortedOrder(last'.events, f)
                   /\ before.error.kind = "none"
                   /\ at.error.kind \in FatalErrors
                   /\ last'.error = at.error
                   /\ state' = before.eng.state
                   /\ processed_events' = before.eng.processed_events
                   /\ yearly_summaries' = before.eng.yearly_summaries]_vars

(***************************************************************************)
(* The resolver on its own: get_rate, get_rates_bulk and clear_cache       *)
(* against a service whose observations do not change ("rates for          *)
(* historical dates never change"), on dates that lie up to one day more   *)
(* than the look-back window apart. The service may go down and come up.   *)
(***************************************************************************)
\* The longest list get_rates_bulk is called with
MaxBulk == 2

\* The dates of this specification: 1 January of year 1, the day before it, and
\* the days 10 and 11 days before it
ResolverDates ==
    {Date(1, 1) - WindowDays - 1, Date(1, 1) - WindowDays, Date(1, 1) - 1, Date(1, 1)}

\* The rate the service publishes for a date, if it publishes one: 1.0000 USD
\* per EUR on 1 January of year 1 and 0.0100 more for every day before it, so
\* that no two dates have the same rate
Published(d) == Quantum + (Date(1, 1) - d) * (Quantum \div 100)

\* What the service may answer on these dates: it is up or down, and has an
\* observation for some of them
ResolverEcbStates ==
    [up : BOOLEAN, obs : {[d \in D |-> Published(d)] : D \in SUBSET ResolverDates}]

\* The lists of dates get_rates_bulk is called with
DateLists == UNION {[1..k -> ResolverDates] : k \in 0..MaxBulk}

InitResolverOnly ==
    /\ state = NewEngine.state
    /\ processed_events = NewEngine.processed_events
    /\ yearly_summaries = NewEngine.yearly_summaries
    /\ last = [events |-> <<>>, error |-> NoError, op |-> "init", prior |-> 0]
    /\ submitted = 0
    /\ returned = Returned("init", 0, <<>>)
    /\ summary = YearlyTaxSummary(0)
    /\ _rate_cache = EmptyRates
    /\ ecb \in ResolverEcbStates
    /\ event = NewStockEvent(Date(0, DaysPerYear), "VEST", ShareDen, Quantum, Quantum)
    /\ first_rate = EmptyRates
    /\ trace = [fetch |-> 0, requests |-> <<>>, get_rate |-> 0, removed |-> 0]
    /\ callers = NoCallers

\* ECBRateFetcher.get_rate(d); first_rate keeps, for every date, the rate the
\* first successful get_rate since the last clear_cache returned for it
ResolverGetRate ==
    \E d \in ResolverDates :
        \E g \in {get_rate(_rate_cache, ecb, d)} :
            /\ _rate_cache' = g.cache
            /\ last' = Call("get_rate", <<>>, g.error)
            /\ returned' = Returned("get_rate", d, g.value)
            /\ trace' = [fetch |-> g.fetch, requests |-> g.requests, get_rate |-> 1,
                         removed |-> 0]
            /\ first_rate' = IF g.error.kind = "none" /\ d \notin DOMAIN first_rate
                             THEN Updated(first_rate, d :> g.value[1])
                             ELSE first_rate
            /\ UNCHANGED <<engineVars, submitted, summary, ecb, event, callers>>

\* ECBRateFetcher.get_rates_bulk(dates)
ResolverGetRatesBulk ==
    \E dates \in DateLists :
        \E b \in {get_rates_bulk(_rate_cache, ecb, dates)} :
            /\ _rate_cache' = b.cache
            /\ last' = Call("get_rates_bulk", <<>>, b.error)
            /\ returned' = Returned("get_rates_bulk", dates, b.value)
            /\ trace' = [fetch |-> b.fetch, requests |-> b.requests, get_rate |-> 0,
                         removed |-> 0]
            /\ UNCHANGED <<engineVars, submitted, summary, ecb, event, first_rate, callers>>

\* ECBRateFetcher.clear_cache(); removed is the number of entries it took out
\* of the cache
ResolverClearCache ==
    /\ _rate_cache' = clear_cache(_rate_cache)
    /\ last' = Call("clear_cache", <<>>, NoError)
    /\ returned' = Returned("clear_cache", 0, <<>>)
    /\ trace' = [fetch |-> 0, requests |-> <<>>, get_rate |-> 0,
                 removed |-> Cardinality(DOMAIN _rate_cache)
                             - Cardinality(DOMAIN clear_cache(_rate_cache))]
    /\ first_rate' = EmptyRates
    /\ UNCHANGED <<engineVars, submitted, summary, ecb, event, callers>>

\* The service goes down or comes up; its observations stay
Outage ==
    /\ ecb' = [ecb EXCEPT !.up = ~@]
    /\ UNCHANGED <<engineVars, last, submitted, returned, summary, _rate_cache, event,
                   first_rate, trace, callers>>

NextResolver == ResolverGetRate \/ ResolverGetRatesBulk \/ ResolverClearCache \/ Outage

SpecResolver == InitResolverOnly /\ [][NextResolver]_vars

\* The dates on or before d the service has published a rate for
PublishedUpTo(d) == {x \in DOMAIN ecb.obs : x <= d}

\* The latest of them
LatestPublication(d) == CHOOSE x \in PublishedUpTo(d) : \A y \in PublishedUpTo(d) : y <= x

\* The last call was a get_rate that returned a rate
GetRateSucceeded == last.op = "get_rate" /\ last.error.kind = "none"

(***************************************************************************)
(* C21. Rate fallback: a get_rate(d) that returns a rate returns the rate  *)
(* of d itself when the service has published one for d, and otherwise    *)
(* the rate of the latest publication date on or before d, never that of a *)
(* later date; and when a rate is published on one of the 10 days before d *)
(* or on d, get_rate(d) fails only if the request itself fails.            *)
(***************************************************************************)
RateFallback ==
    last.op = "get_rate" =>
        /\ last.error.kind = "none" =>
              /\ PublishedUpTo(returned.arg) # {}
              /\ returned.value =
                    <<Invert(ecb.obs[LatestPublication(returned.arg)])>>
              /\ returned.arg \in DOMAIN ecb.obs =>
                    returned.value = <<Invert(ecb.obs[returned.arg])>>
        /\ (\E x \in PublishedUpTo(returned.arg) : returned.arg - x <= WindowDays)
              => last.error.kind \in {"none", "FetchFailed"}

\* A get_rate for a date without rate, with rates published 10 days before it
\* and on the day after it, that asked the service and returned the rate of
\* 10 days before.
RateFallbackWitness ==
    /\ GetRateSucceeded
    /\ trace.fetch = 1
    /\ returned.arg \notin DOMAIN ecb.obs
    /\ returned.arg + 1 \in DOMAIN ecb.obs
    /\ LatestPublication(returned.arg) = returned.arg - WindowDays
    /\ returned.value = <<Invert(Published(returned.arg - WindowDays))>>

(***************************************************************************)
(* C22. Window widening: get_rate(d) reports a lookup error only when no   *)
(* rate was published on the day before its initial look-back window       *)
(* either, a rate published then being found by a second, wider look.      *)
(***************************************************************************)
WindowWidening ==
    (last.op = "get_rate" /\ last.error.kind = "NoRateAvailable")
        => returned.arg - WindowDays - 1 \notin DOMAIN ecb.obs

\* The step is a call of get_rate or get_rates_bulk (the service is as before)
ResolverCalled == last'.op \in {"get_rate", "get_rates_bulk"} /\ ecb' = ecb

\* The dates the call asked a rate for
RequestedDates ==
    IF last'.op = "get_rate" THEN {returned'.arg} ELSE Elements(returned'.arg)

\* The requested dates for which the service has published no rate from the
\* start of the requested period to the date itself
WithoutRate ==
    {d \in RequestedDates :
        ~\E x \in DOMAIN ecb.obs : trace'.requests[1][1] <= x /\ x <= d}

CacheHit ==
    [][(last'.op = "get_rate" /\ ecb' = ecb /\ returned'.arg \in DOMAIN first_rate)
          => /\ last'.error.kind = "none"
             /\ returned'.value = <<first_rate[returned'.arg]>>
             /\ trace'.fetch = 0
             /\ trace'.requests = <<>>]_vars

\* A get_rate, while the service is down, for a date without published rate
\* that an earlier get_rate has returned a rate for: it returns the rate of the
\* day before again, without request.
CacheHitWitness ==
    /\ GetRateSucceeded
    /\ ~ecb.up
    /\ returned.arg \in DOMAIN first_rate
    /\ returned.arg \notin DOMAIN ecb.obs
    /\ returned.arg - 1 \in DOMAIN ecb.obs
    /\ returned.value = <<Invert(Published(returned.arg - 1))>>
    /\ trace.fetch = 0

(***************************************************************************)
(* C25. Bulk resolution: a get_rates_bulk on a non-empty list makes        *)
(* exactly one request, for the period from 10 days before the earliest    *)
(* date of the list to its latest date; when it succeeds it returns a      *)
(* mapping with a rate for every date of the list and for no other date,   *)
(* and the cache then holds that rate for each of them, the dates that     *)
(* fell back to an earlier publication included. On the empty list it      *)
(* makes no request and returns the empty mapping.                         *)
(***************************************************************************)
BulkResolution ==
    last.op = "get_rates_bulk" =>
        /\ returned.arg = <<>> =>
              /\ last.error.kind = "none"
              /\ trace.fetch = 0
              /\ trace.requests = <<>>
              /\ returned.value = <<EmptyRates>>
        /\ returned.arg # <<>> =>
              /\ trace.fetch = 1
              /\ \E lo, hi \in Elements(returned.arg) :
                    /\ \A x \in Elements(returned.arg) : lo <= x /\ x <= hi
                    /\ trace.requests = <<(<<lo - BufferDays, hi>>)>>
              /\ last.error.kind = "none" =>
                    /\ DOMAIN returned.value[1] = Elements(returned.arg)
                    /\ \A d \in Elements(returned.arg) :
                          /\ d \in DOMAIN _rate_cache
                          /\ _rate_cache[d] = returned.value[1][d]
                          /\ returned.value[1][d] = Invert(ecb.obs[LatestPublication(d)])

\* A get_rates_bulk of two dates, the later one first, that succeeded with one
\* request: the earlier date has a rate of its own, the later one has none and
\* fell back to a rate published more than 10 days before it.
BulkResolutionWitness ==
    /\ last.op = "get_rates_bulk"
    /\ last.error.kind = "none"
    /\ Len(returned.arg) = 2
    /\ returned.arg[2] < returned.arg[1]
    /\ returned.arg[2] \in DOMAIN ecb.obs
    /\ returned.arg[1] \notin DOMAIN ecb.obs
    /\ returned.arg[1] - LatestPublication(returned.arg[1]) > WindowDays
    /\ returned.arg[1] \in DOMAIN _rate_cache
    /\ trace.fetch = 1

(***************************************************************************)
(* C26. Cache lifecycle: clear_cache leaves the cache empty, and a         *)
(* get_rate that follows it directly, for whatever date, asks the service  *)
(* again; every step that is not a clear_cache keeps every entry the cache *)
(* has.                                                                    *)
(***************************************************************************)
CacheLifecycle ==
    [][/\ last'.op = "clear_cache" => _rate_cache' = EmptyRates
       /\ (last.op = "clear_cache" /\ last'.op = "get_rate")
             => /\ trace'.fetch = 1
                /\ trace'.requests = <<(<<returned'.arg - WindowDays, returned'.arg>>)>>
       /\ last'.op # "clear_cache"
             => \A d \in DOMAIN _rate_cache : d \in DOMAIN _rate_cache']_vars

\* A clear_cache that took the four entries the cache had out of it, two of
\* them of dates that had fallen back.
CacheLifecycleWitness ==
    /\ last.op = "clear_cache"
    /\ trace.removed = 4
    /\ Cardinality(DOMAIN ecb.obs) = 2
    /\ _rate_cache = EmptyRates

(***************************************************************************)
(* get_rate called by several callers at the same time. ECBRateFetcher has *)
(* no lock: a caller may be overtaken between any two of its accesses to   *)
(* the class-level cache, and while it waits for the service.              *)
(***************************************************************************)
\* What the service may answer on the dates of the model; it does not change
\* while the callers run
ThreadEcbStates ==
    [up : BOOLEAN, obs : {[d \in D |-> Published(d)] : D \in SUBSET Dates}]

InitThreads ==
    /\ state = NewEngine.state
    /\ processed_events = NewEngine.processed_events
    /\ yearly_summaries = NewEngine.yearly_summaries
    /\ last = [events |-> <<>>, error |-> NoError, op |-> "init", prior |-> 0]
    /\ submitted = 0
    /\ returned = Returned("init", 0, <<>>)
    /\ summary = YearlyTaxSummary(0)
    /\ _rate_cache = EmptyRates
    /\ ecb \in ThreadEcbStates
    /\ event = NewStockEvent(Date(0, DaysPerYear), "VEST", ShareDen, Quantum, Quantum)
    /\ first_rate = NotYetResolved
    /\ trace = NoCalls
    /\ callers = NoCallers

\* Caller c goes on: the others stay where they are
Goes(c, now) ==
    /\ callers' = [callers EXCEPT ![c] = now]
    /\ UNCHANGED <<engineVars, last, submitted, returned, summary, ecb, event,
                   first_rate, trace>>

\* Caller c calls ECBRateFetcher.get_rate(d)
EnterGetRate(c) ==
    /\ callers[c].pc = "idle"
    /\ \E d \in Dates :
          Goes(c, [Idle EXCEPT !.pc = "check", !.target_date = d])
    /\ UNCHANGED _rate_cache

\* if target_date in cls._rate_cache: return cls._rate_cache[target_date]
CheckCache(c) ==
    /\ callers[c].pc = "check"
    /\ IF callers[c].target_date \in DOMAIN _rate_cache
       THEN Goes(c, [callers[c] EXCEPT !.pc = "done",
                        !.value = <<_rate_cache[callers[c].target_date]>>])
       ELSE Goes(c, [callers[c] EXCEPT !.pc = "fetch"])
    /\ UNCHANGED _rate_cache

\* rates = cls._fetch_rates_for_period(start_date, end_date)
FetchRates(c) ==
    /\ callers[c].pc = "fetch"
    /\ \E f \in {_fetch_rates_for_period(ecb, callers[c].target_date - WindowDays,
                                          callers[c].target_date)} :
          IF f.error.kind # "none"
          THEN Goes(c, [callers[c] EXCEPT !.pc = "done", !.error = f.error, !.fetch = 1])
          ELSE Goes(c, [callers[c] EXCEPT !.pc = "update", !.rates = f.rates,
                           !.fetch = 1])
    /\ UNCHANGED _rate_cache

\* cls._rate_cache.update(rates)
UpdateCache(c) ==
    /\ callers[c].pc = "update"
    /\ _rate_cache' = Updated(_rate_cache, callers[c].rates)
    /\ Goes(c, [callers[c] EXCEPT !.pc = "find"])

\* Lines 94-105: the rate of the date, or that of the closest date before it,
\* which is cached for the date, or ValueError
FindRate(c) ==
    /\ callers[c].pc = "find"
    /\ \E d \in {callers[c].target_date} : \E rates \in {callers[c].rates} :
          IF d \in DOMAIN rates
          THEN /\ Goes(c, [callers[c] EXCEPT !.pc = "done", !.value = <<rates[d]>>])
               /\ UNCHANGED _rate_cache
          ELSE IF available_dates(rates, d) # {}
          THEN /\ Goes(c, [callers[c] EXCEPT !.pc = "done",
                               !.value = <<rates[closest_date(rates, d)]>>])
               /\ _rate_cache' = Updated(_rate_cache, d :> rates[closest_date(rates, d)])
          ELSE /\ Goes(c, [callers[c] EXCEPT !.pc = "done",
                               !.error = NoRateAvailable(d)])
               /\ UNCHANGED _rate_cache

\* get_rate returns to caller c, or raises
ReturnRate(c) ==
    /\ callers[c].pc = "done"
    /\ callers' = [callers EXCEPT ![c] = Idle]
    /\ last' = Call("get_rate", <<>>, callers[c].error)
    /\ returned' = Returned("get_rate", callers[c].target_date, callers[c].value)
    /\ trace' = [fetch |-> callers[c].fetch, get_rate |-> 1]
    /\ UNCHANGED <<engineVars, submitted, summary, _rate_cache, ecb, event, first_rate>>

NextThreads ==
    \E c \in Callers :
        \/ EnterGetRate(c)
        \/ CheckCache(c)
        \/ FetchRates(c)
        \/ UpdateCache(c)
        \/ FindRate(c)
        \/ ReturnRate(c)

SpecThreads == InitThreads /\ [][NextThreads]_vars

\* The callers that are between the look into the cache and the last write to
\* it
InLookupOrPopulate == {c \in Callers : callers[c].pc \in {"fetch", "update", "find"}}

\* Callers a and b are both about to return a rate for the same date
BothHaveRate(a, b) ==
    /\ a # b
    /\ callers[a].pc = "done" /\ callers[b].pc = "done"
    /\ callers[a].value # <<>> /\ callers[b].value # <<>>
    /\ callers[a].target_date = callers[b].target_date

\* Two calls for the same date that are in progress at the same time and both
\* have their rate have made at most one request between them
AtMostOneFetch ==
    \A a, b \in Callers :
        BothHaveRate(a, b) => callers[a].fetch + callers[b].fetch <= 1

\* The date of every call that has its rate is in the cache, with that rate
NoEntryLost ==
    \A a \in Callers :
        (callers[a].pc = "done" /\ callers[a].value # <<>>)
            => /\ callers[a].target_date \in DOMAIN _rate_cache
               /\ _rate_cache[callers[a].target_date] = callers[a].value[1]

(***************************************************************************)
(* C27. Serialized cache access: at no time are two callers of get_rate    *)
(* between the look into the cache and the write that populates it, so     *)
(* that two concurrent calls for the same date make at most one request    *)
(* between them and no entry a caller wrote is missing from the cache.     *)
(***************************************************************************)
SerializedCacheAccess ==
    /\ Cardinality(InLookupOrPopulate) <= 1
    /\ AtMostOneFetch
    /\ NoEntryLost

(***************************************************************************)
(* C28. Reset: a newly constructed engine, and an engine reset() has just  *)
(* returned on, hold 0 shares at average cost 0 and total cost 0, no       *)
(* processed event and no yearly summary, whatever was processed before.   *)
(***************************************************************************)
ResetToZero ==
    last.op \in {"init", "reset"} =>
        /\ state.total_shares = 0
        /\ state.avg_cost_eur = 0
        /\ state.total_portfolio_cost_eur = 0
        /\ processed_events = <<>>
        /\ DOMAIN yearly_summaries = {}

\* A reset() on an engine that had processed as many events as the model
\* allows.
ResetToZeroWitness ==
    /\ last.op = "reset"
    /\ last.prior = MaxEvents
    /\ submitted = MaxEvents
    /\ processed_events = <<>>

\* The record before the i-th of the history; before the first the engine was
\* at zero
RecordBefore(i) ==
    IF i = 1
    THEN [total_portfolio_cost_eur |-> 0, total_shares_after |-> 0,
          avg_cost_eur_after |-> 0]
    ELSE [total_portfolio_cost_eur |-> processed_events[i - 1].total_portfolio_cost_eur,
          total_shares_after |-> processed_events[i - 1].total_shares_after,
          avg_cost_eur_after |-> processed_events[i - 1].avg_cost_eur_after]

\* cost_removed of the SELL the i-th record is of
CostRemoved(i) ==
    RoundHalfUp(RecordBefore(i).avg_cost_eur_after * processed_events[i].event.shares,
                ShareDen)

\* The i-th record is of a SELL that left shares, and the total cost after it
\* is the stored total before it less cost_removed
DisposalSubtracts(i) ==
    (IsSell(processed_events[i].event) /\ processed_events[i].total_shares_after > 0)
        => processed_events[i].total_portfolio_cost_eur =
              RecordBefore(i).total_portfolio_cost_eur - CostRemoved(i)

(***************************************************************************)
(* C29 as claimed. Incremental total cost: after every acquisition the     *)
(* total portfolio cost is the stored total before the event plus the cost *)
(* of the event, and after every disposal that leaves shares it is the     *)
(* stored total before the event less cost_removed.                        *)
(***************************************************************************)
IncrementalTotalCost ==
    \A i \in DOMAIN processed_events :
        /\ IsAcquisition(processed_events[i].event)
              => processed_events[i].total_portfolio_cost_eur =
                    RecordBefore(i).total_portfolio_cost_eur
                    + total_value_eur(processed_events[i].event)
        /\ DisposalSubtracts(i)

(***************************************************************************)
(* C29 as the code has it. After every acquisition the total portfolio     *)
(* cost is total_shares * avg_cost before the event plus the cost of the   *)
(* event, rounded half-up to 4 decimals: the old total is reconstituted    *)
(* from the product, the stored total is not read. After every disposal    *)
(* that leaves shares it is the stored total before the event less         *)
(* cost_removed.                                                           *)
(***************************************************************************)
TotalCostByUpdateRules ==
    \A i \in DOMAIN processed_events :
        /\ IsAcquisition(processed_events[i].event)
              => processed_events[i].total_portfolio_cost_eur =
                    RoundHalfUp(RecordBefore(i).total_shares_after
                                    * RecordBefore(i).avg_cost_eur_after
                                + total_value_eur(processed_events[i].event) * ShareDen,
                                ShareDen)
        /\ DisposalSubtracts(i)

\* An acquisition, a disposal that left shares and took cost_removed off the
\* stored total, and a second acquisition after which the total cost is not
\* the stored total plus the cost of the event.
TotalCostByUpdateRulesWitness ==
    /\ Len(processed_events) = 3
    /\ IsAcquisition(processed_events[1].event)
    /\ IsSell(processed_events[2].event)
    /\ processed_events[2].total_shares_after > 0
    /\ CostRemoved(2) > 0
    /\ IsAcquisition(processed_events[3].event)
    /\ processed_events[3].total_portfolio_cost_eur #
          processed_events[2].total_portfolio_cost_eur
          + total_value_eur(processed_events[3].event)

(***************************************************************************)
(* The derived fields of an event, price_eur and total_value_eur, read on  *)
(* events with an explicit rate and on events whose rate the resolver      *)
(* gives.                                                                  *)
(***************************************************************************)
\* price_usd of the events, in ticks: prices whose product with a rate ends on
\* a half tick, below it and above it
MoneyPrices == {1, 5, 3333, 12345, 30000}

\* The explicit rates of the events, in ticks
MoneyRates == {5000, 8200, Quantum, 11000}

MoneyEvents ==
    {NewStockEvent(d, "VEST", n, p, fx) :
        d \in Dates, n \in 1..MaxMoneyShares, p \in MoneyPrices,
        fx \in {None} \cup MoneyRates}

InitMoney ==
    /\ state = NewEngine.state
    /\ processed_events = NewEngine.processed_events
    /\ yearly_summaries = NewEngine.yearly_summaries
    /\ last = [events |-> <<>>, error |-> NoError, op |-> "init", prior |-> 0]
    /\ submitted = 0
    /\ returned = Returned("init", 0, <<>>)
    /\ summary = YearlyTaxSummary(0)
    /\ _rate_cache = EmptyRates
    /\ ecb \in ThreadEcbStates
    /\ event \in MoneyEvents
    /\ first_rate = NotYetResolved
    /\ trace = NoCalls
    /\ callers = NoCallers

\* A derived field of the held event is read, rr being what its read of
\* resolved_fx_rate gave
ReadDerived(op, rr, value) ==
    /\ event' = rr.event
    /\ _rate_cache' = rr.cache
    /\ last' = Call(op, <<>>, rr.error)
    /\ returned' = Returned(op, 0, IF rr.error.kind = "none" THEN <<value>> ELSE <<>>)
    /\ trace' = [fetch |-> rr.fetch, get_rate |-> rr.get_rate]
    /\ UNCHANGED <<engineVars, submitted, summary, ecb, first_rate, callers>>

\* event.price_eur
PriceEur ==
    \E rr \in {ResolveFxRate(event, _rate_cache, ecb)} :
        ReadDerived("price_eur", rr,
                    IF rr.error.kind = "none"
                    THEN price_eur(WithRate(rr.event, rr.value[1])) ELSE 0)

\* event.total_value_eur
TotalValueEur ==
    \E rr \in {ResolveFxRate(event, _rate_cache, ecb)} :
        ReadDerived("total_value_eur", rr,
                    IF rr.error.kind = "none"
                    THEN total_value_eur(WithRate(rr.event, rr.value[1])) ELSE 0)

NextMoney == PriceEur \/ TotalValueEur

SpecMoney == InitMoney /\ [][NextMoney]_vars

\* num / den to the nearest whole number, a half going up (num >= 0)
HalfUp(num, den) == (2 * num + den) \div (2 * den)

(***************************************************************************)
(* C30. Derived monetary fields: price_eur of an event is price_usd times  *)
(* its resolved rate, rounded half-up to 4 decimals, and total_value_eur   *)
(* is shares times that rounded price, rounded half-up to 4 decimals.      *)
(***************************************************************************)
DerivedMonetaryFields ==
    /\ (last.op = "price_eur" /\ Succeeded)
          => returned.value =
                <<HalfUp(event.price_usd * event._fx_rate_resolved, Quantum)>>
    /\ (last.op = "total_value_eur" /\ Succeeded)
          => returned.value =
                <<HalfUp(event.shares
                            * HalfUp(event.price_usd * event._fx_rate_resolved, Quantum),
                         ShareDen)>>

\* total_value_eur read on an event of half a share at 0.0005 USD and rate
\* 1.0000: the price is 0.0005, half of it is 0.00025 and the total 0.0003.
DerivedMonetaryFieldsWitness ==
    /\ last.op = "total_value_eur"
    /\ Succeeded
    /\ event.shares = 1
    /\ event.price_usd = 5
    /\ event._fx_rate_resolved = Quantum
    /\ returned.value = <<3>>

(***************************************************************************)
(* The resolver against published values whose inverse ends below, on and *)
(* above half a tick.                                                      *)
(***************************************************************************)
\* OBS_VALUE of the observations, in ticks: 1.0000, 1.2000 (0.83333...),
\* 1.2800 (0.78125) and 1.2143 (0.823519...)
InvertValues == {Quantum, 12000, 12800, 12143}

\* What the service may answer: it is up or down, and has one of these values
\* for some of the last two dates
InvertEcbStates ==
    [up : BOOLEAN, obs : UNION {[D -> InvertValues] : D \in SUBSET Dates}]

InitInvert ==
    /\ state = NewEngine.state
    /\ processed_events = NewEngine.processed_events
    /\ yearly_summaries = NewEngine.yearly_summaries
    /\ last = [events |-> <<>>, error |-> NoError, op |-> "init", prior |-> 0]
    /\ submitted = 0
    /\ returned = Returned("init", 0, <<>>)
    /\ summary = YearlyTaxSummary(0)
    /\ _rate_cache = EmptyRates
    /\ ecb \in InvertEcbStates
    /\ event = NewStockEvent(Date(0, DaysPerYear), "VEST", ShareDen, Quantum, Quantum)
    /\ first_rate = EmptyRates
    /\ trace = [fetch |-> 0, requests |-> <<>>, get_rate |-> 0, removed |-> 0]
    /\ callers = NoCallers

SpecInvert == InitInvert /\ [][NextResolver]_vars

(***************************************************************************)
(* C31. Rate inversion: the rate the cache holds for a date the service    *)
(* has published a value for, and the rate get_rate and get_rates_bulk     *)
(* return for such a date, is 1 divided by the published value, rounded    *)
(* half-up to 4 decimals.                                                  *)
(***************************************************************************)
RateInversion ==
    /\ \A d \in DOMAIN _rate_cache \cap DOMAIN ecb.obs :
          _rate_cache[d] = HalfUp(Quantum * Quantum, ecb.obs[d])
    /\ (GetRateSucceeded /\ returned.arg \in DOMAIN ecb.obs)
          => returned.value = <<HalfUp(Quantum * Quantum, ecb.obs[returned.arg])>>
    /\ (last.op = "get_rates_bulk" /\ last.error.kind = "none")
          => \A d \in DOMAIN returned.value[1] \cap DOMAIN ecb.obs :
                returned.value[1][d] = HalfUp(Quantum * Quantum, ecb.obs[d])

\* A get_rate for a date with published value 1.2800 that asked the service
\* and returned 0.7813, the inverse 0.78125 rounded up.
RateInversionWitness ==
    /\ GetRateSucceeded
    /\ trace.fetch = 1
    /\ returned.arg \in DOMAIN ecb.obs
    /\ ecb.obs[returned.arg] = 12800
    /\ returned.value = <<7813>>
    /\ _rate_cache[returned.arg] = 7813

\* The step is a process_event call that processed a VEST or a BUY
SuccessfulAcquisition ==
    /\ last'.op = "process_event"
    /\ IsAcquisition(last'.events[1])
    /\ last'.error.kind = "none"

\* The event with VEST and BUY exchanged
OtherAcquisition(e) ==
    [e EXCEPT !.event_type = IF @ = "VEST" THEN "BUY" ELSE "VEST"]

\* What a record says apart from the event it is of
Figures(rec) ==
    <<rec.total_shares_after, rec.avg_cost_eur_after, rec.total_portfolio_cost_eur,
      rec.realized_gain_loss, rec.cost_change_eur>>

(***************************************************************************)
(* C32. Acquisition update rule: a VEST or BUY of n shares with total cost *)
(* c that process_event processes on (S, A, C) leaves S + n shares at      *)
(* average cost (S*A + c) / (S + n) and total cost S*A + c, both rounded   *)
(* half-up to 4 decimals; the record it returns and appends has the new    *)
(* state, realized_gain_loss 0 and cost_change +c; the event of the other  *)
(* acquisition kind with the same n and c gives the same state and the     *)
(* same figures.                                                           *)
(***************************************************************************)
AcquisitionUpdateRule ==
    [][SuccessfulAcquisition
       => \E e \in {last'.events[1]} :
              \E total \in {state.total_shares * state.avg_cost_eur
                                + total_value_eur(e) * ShareDen} :
                  /\ state'.total_shares = state.total_shares + e.shares
                  /\ state'.avg_cost_eur = HalfUp(total, state.total_shares + e.shares)
                  /\ state'.total_portfolio_cost_eur = HalfUp(total, ShareDen)
                  /\ returned'.value = <<processed_events'[Len(processed_events')]>>
                  /\ Len(processed_events') = Len(processed_events) + 1
                  /\ Figures(returned'.value[1]) =
                        <<state'.total_shares, state'.avg_cost_eur,
                          state'.total_portfolio_cost_eur, 0, total_value_eur(e)>>
                  /\ returned'.value[1].event = e
                  /\ \E twin \in {process_event(Engine, OtherAcquisition(e))} :
                        /\ twin.error.kind = "none"
                        /\ twin.eng.state = state'
                        /\ Figures(twin.eng.processed_events[Len(twin.eng.processed_events)])
                              = Figures(returned'.value[1])]_vars

\* An acquisition was processed on a position held at a non-zero average
\* cost, and the new average cost, a rounded quotient, is neither the old
\* average nor the price of the event.
AcquisitionUpdateRuleWitness ==
    /\ last.op = "process_event"
    /\ IsAcquisition(LastEvent)
    /\ Succeeded
    /\ Len(processed_events) >= 2
    /\ RecordBefore(Len(processed_events)).total_shares_after > 0
    /\ RecordBefore(Len(processed_events)).avg_cost_eur_after > 0
    /\ state.avg_cost_eur # RecordBefore(Len(processed_events)).avg_cost_eur_after
    /\ state.avg_cost_eur # price_eur(LastEvent)
    /\ (RecordBefore(Len(processed_events)).total_shares_after
          * RecordBefore(Len(processed_events)).avg_cost_eur_after
        + total_value_eur(LastEvent) * ShareDen) % state.total_shares # 0

\* num / den rounded half-up to a whole number of ticks, ties away from zero
Round4(num, den) == IF num < 0 THEN -HalfUp(-num, den) ELSE HalfUp(num, den)

(***************************************************************************)
(* C33. Disposal update rule: a SELL of q <= S shares at the rounded price *)
(* p that process_event processes on (S, A, C) returns and appends a       *)
(* record with realized_gain_loss = round4((p - A) * q), A being the       *)
(* average cost before the event, and cost_change = -round4(A * q); it     *)
(* leaves S - q shares and, when shares are left, the total cost           *)
(* C - round4(A * q).                                                      *)
(***************************************************************************)
DisposalUpdateRule ==
    [][SuccessfulSell
       => \E e \in {last'.events[1]} :
              /\ e.shares <= state.total_shares
              /\ returned'.value = <<processed_events'[Len(processed_events')]>>
              /\ Len(processed_events') = Len(processed_events) + 1
              /\ returned'.value[1].event = e
              /\ returned'.value[1].realized_gain_loss =
                    Round4((price_eur(e) - state.avg_cost_eur) * e.shares, ShareDen)
              /\ returned'.value[1].cost_change_eur =
                    -Round4(state.avg_cost_eur * e.shares, ShareDen)
              /\ state'.total_shares = state.total_shares - e.shares
              /\ returned'.value[1].total_shares_after = state'.total_shares
              /\ state'.total_shares > 0
                    => /\ state'.total_portfolio_cost_eur =
                             state.total_portfolio_cost_eur
                             - Round4(state.avg_cost_eur * e.shares, ShareDen)
                       /\ returned'.value[1].total_portfolio_cost_eur =
                             state'.total_portfolio_cost_eur]_vars

\* All the shares held were sold below their average cost, and the loss ends
\* on half a tick: it is the average cost before the sale that was used, and
\* the loss was rounded away from zero.
DisposalUpdateRuleWitness ==
    /\ last.op = "process_event"
    /\ IsSell(LastEvent)
    /\ Succeeded
    /\ state.total_shares = 0
    /\ RecordBefore(Len(processed_events)).avg_cost_eur_after > price_eur(LastEvent)
    /\ ((RecordBefore(Len(processed_events)).avg_cost_eur_after - price_eur(LastEvent))
          * LastEvent.shares) % ShareDen # 0
    /\ processed_events[Len(processed_events)].realized_gain_loss < 0
    /\ processed_events[Len(processed_events)].cost_change_eur < 0

(***************************************************************************)
(* C34. Zero-position invariant: whenever the engine holds no shares, its  *)
(* average cost and its total portfolio cost are 0, in the state and in    *)
(* every record of the history; an acquisition that follows a record with  *)
(* no shares has the average cost and the total cost of that acquisition   *)
(* alone.                                                                  *)
(***************************************************************************)
ZeroPosition ==
    /\ state.total_shares = 0
          => state.avg_cost_eur = 0 /\ state.total_portfolio_cost_eur = 0
    /\ \A i \in DOMAIN processed_events :
          /\ processed_events[i].total_shares_after = 0
                => /\ processed_events[i].avg_cost_eur_after = 0
                   /\ processed_events[i].total_portfolio_cost_eur = 0
          /\ (IsAcquisition(processed_events[i].event) /\ HeldBefore(i) = 0)
                => /\ processed_events[i].avg_cost_eur_after =
                         HalfUp(total_value_eur(processed_events[i].event) * ShareDen,
                                processed_events[i].event.shares)
                   /\ processed_events[i].total_portfolio_cost_eur =
                         total_value_eur(processed_events[i].event)

\* Shares were acquired, all of them sold, and shares acquired again at
\* another price: the average cost is that of the last acquisition alone.
ZeroPositionWitness ==
    /\ Len(processed_events) = 3
    /\ IsAcquisition(processed_events[1].event)
    /\ IsSell(processed_events[2].event)
    /\ processed_events[2].total_shares_after = 0
    /\ IsAcquisition(processed_events[3].event)
    /\ processed_events[1].avg_cost_eur_after # processed_events[3].avg_cost_eur_after
    /\ state.total_shares > 0
    /\ state.avg_cost_eur = processed_events[3].avg_cost_eur_after

(***************************************************************************)
(* The engine on positions of a few shares bought at prices of one or two  *)
(* ticks, where the rounding of the average cost is large against the cost *)
(* of the position.                                                        *)
(***************************************************************************)
\* Events of one date with up to MaxCostShares half-shares at up to
\* MaxCostPrice ticks
CostEvent ==
    [event_date : {Date(1, 1)}, event_type : EventType, shares : 1..MaxCostShares,
     price_usd : 1..MaxCostPrice, fx_rate : {Quantum}]

\* TaxEngine.process_event(event)
ProcessCostEvent ==
    /\ submitted < MaxEvents
    /\ \E e \in CostEvent :
          \E r \in {process_event(Engine, e)} :
              /\ Become(r.eng)
              /\ last' = Call("process_event", <<e>>, r.error)
              /\ submitted' = submitted + 1
              /\ returned' = Returned("process_event", 0,
                                      IF r.error.kind = "none"
                                      THEN <<r.eng.processed_events[Len(r.eng.processed_events)]>>
                                      ELSE <<>>)
              /\ UNCHANGED summary
              /\ UNCHANGED resolverVars

NextCost == Reset \/ ProcessCostEvent

SpecCost == Init /\ [][NextCost]_vars

(***************************************************************************)
(* C35. Non-negative cost basis: in every state reached by successfully    *)
(* processed events with strictly positive shares and prices the average   *)
(* cost and the total portfolio cost are not negative, in particular after *)
(* partial disposals that leave shares.  This fails: a SELL subtracts the  *)
(* rounded average cost times the shares sold, and an average cost rounded *)
(* up takes more off the total than the position has cost.                 *)
(***************************************************************************)
NonNegativeCostBasis ==
    /\ state.avg_cost_eur >= 0
    /\ state.total_portfolio_cost_eur >= 0
    /\ \A i \in DOMAIN processed_events :
          /\ processed_events[i].avg_cost_eur_after >= 0
          /\ processed_events[i].total_portfolio_cost_eur >= 0

(***************************************************************************)
(* C36. History consistency: a process_event call that succeeds appends    *)
(* exactly one record to the history, whose total_shares_after,            *)
(* avg_cost_eur_after and total_portfolio_cost_eur are the state of the    *)
(* engine right after the event; a process_event call that fails appends   *)
(* nothing; either way the records that were there stay as they were.      *)
(***************************************************************************)
HistoryConsistency ==
    [][last'.op = "process_event"
       => IF last'.error.kind = "none"
          THEN /\ Len(processed_events') = Len(processed_events) + 1
               /\ \A i \in DOMAIN processed_events :
                     processed_events'[i] = processed_events[i]
               /\ processed_events'[Len(processed_events')].event = last'.events[1]
               /\ processed_events'[Len(processed_events')].total_shares_after
                     = state'.total_shares
               /\ processed_events'[Len(processed_events')].avg_cost_eur_after
                     = state'.avg_cost_eur
               /\ processed_events'[Len(processed_events')].total_portfolio_cost_eur
                     = state'.total_portfolio_cost_eur
          ELSE /\ processed_events' = processed_events
               /\ state' = state]_vars

\* A third event was processed after two that left another state: the
\* history holds the three records, the first still with the shares held
\* after the first event.
HistoryConsistencyWitness ==
    /\ last.op = "process_event"
    /\ Succeeded
    /\ last.prior = 2
    /\ Len(processed_events) = 3
    /\ processed_events[1].total_shares_after = processed_events[1].event.shares
    /\ processed_events[1].total_shares_after # state.total_shares
    /\ processed_events[2].total_shares_after # state.total_shares
    /\ processed_events[3].total_shares_after = state.total_shares

\* The step is a get_rates_bulk call
BulkCalled == last'.op = "get_rates_bulk" /\ ecb' = ecb

(***************************************************************************)
(* C37. Bulk and single resolution agree: for every date d of the list     *)
(* given to get_rates_bulk the outcome is that of get_rate(d) on an empty  *)
(* cache against the same service: a get_rates_bulk that returns has, for  *)
(* every d, the rate get_rate(d) returns, and get_rate(d) returns one; a   *)
(* get_rates_bulk that raises the lookup error for d does so when          *)
(* get_rate(d) raises it.  This fails: get_rates_bulk looks back to 10     *)
(* days before the earliest date of the list, and gives a later date a     *)
(* rate for which get_rate raises the lookup error.                        *)
(***************************************************************************)
BulkAgreesWithSingle ==
    [][BulkCalled
       => \A d \in Elements(returned'.arg) :
              \E g \in {get_rate(EmptyRates, ecb, d)} :
                  /\ last'.error.kind = "none"
                        => /\ g.error.kind = "none"
                           /\ returned'.value[1][d] = g.value[1]
                  /\ last'.error = NoRateAvailable(d)
                        => g.error = NoRateAvailable(d)]_vars

\* Every cache entry is the inverted rate of the latest publication on or
\* before its date
CacheHoldsLatestPublication ==
    \A d \in DOMAIN _rate_cache :
        /\ PublishedUpTo(d) # {}
        /\ _rate_cache[d] = HalfUp(Quantum * Quantum, ecb.obs[LatestPublication(d)])

\* Every cache entry for a date without a publication of its own is the rate
\* a get_rate of the date returns on an empty cache, the service being up
FallbackAsFreshLookup ==
    \A d \in DOMAIN _rate_cache \ DOMAIN ecb.obs :
        \E g \in {get_rate(EmptyRates, [ecb EXCEPT !.up = TRUE], d)} :
            /\ g.error.kind = "none"
            /\ g.value = <<_rate_cache[d]>>

(***************************************************************************)
(* C38. Cache soundness: with a service whose observations do not change,  *)
(* after any get_rate, get_rates_bulk and clear_cache calls, successful or *)
(* failed, every entry of the cache holds, for its date d, the inverted    *)
(* rate of the latest publication on or before d, and an entry for a date  *)
(* without a publication of its own is the rate a lookup of d on an empty  *)
(* cache returns.  The first half holds; the second fails for the entries  *)
(* get_rates_bulk stores for dates more than 10 days after the latest      *)
(* publication, for which get_rate raises the lookup error.                *)
(***************************************************************************)
CacheSoundness == CacheHoldsLatestPublication /\ FallbackAsFreshLookup

(***************************************************************************)
(* Rates fetched ahead: prefetch_ecb_rates on a list of events, then       *)
(* process_all on a list of events, with the cache cleared and the service *)
(* going down or coming up in between.                                     *)
(***************************************************************************)
\* The dates of the events: 1 January of year 1 and the day 11 days before it
PrefetchDates == {Date(1, 1) - WindowDays - 1, Date(1, 1)}

\* Events of one share at 1.0000: a VEST on either date, constructed with or
\* without fx_rate, and a SELL on the later date, constructed without
PrefetchEvent ==
    {NewStockEvent(d, "VEST", ShareDen, Quantum, fx) :
        d \in PrefetchDates, fx \in {None} \cup ExplicitRates}
    \cup {NewStockEvent(Date(1, 1), "SELL", ShareDen, Quantum, None)}

\* What the service may answer on these dates: it is up or down, and has an
\* observation for some of them
PrefetchEcbStates ==
    [up : BOOLEAN, obs : {[d \in D |-> Published(d)] : D \in SUBSET PrefetchDates}]

InitPrefetch ==
    /\ state = NewEngine.state
    /\ processed_events = NewEngine.processed_events
    /\ yearly_summaries = NewEngine.yearly_summaries
    /\ last = [events |-> <<>>, error |-> NoError, op |-> "init", prior |-> 0]
    /\ submitted = 0
    /\ returned = Returned("init", 0, <<>>)
    /\ summary = YearlyTaxSummary(0)
    /\ _rate_cache = EmptyRates
    /\ ecb \in PrefetchEcbStates
    /\ event = NewStockEvent(Date(0, DaysPerYear), "VEST", ShareDen, Quantum, Quantum)
    /\ first_rate = EmptyRates
    /\ trace = [fetch |-> 0, requests |-> <<>>, get_rate |-> 0, removed |-> 0]
    /\ callers = NoCallers

PrefetchLists == UNION {[1..k -> PrefetchEvent] : k \in 0..MaxPrefetchEvents}

\* prefetch_ecb_rates(events)
Prefetch ==
    \E objs \in PrefetchLists :
        \E p \in {prefetch_ecb_rates(_rate_cache, ecb, objs)} :
            /\ _rate_cache' = p.cache
            /\ last' = Call("prefetch_ecb_rates", objs, p.error)
            /\ returned' = Returned("prefetch_ecb_rates", 0, <<>>)
            /\ trace' = [fetch |-> p.fetch, requests |-> p.requests, get_rate |-> 0,
                         removed |-> 0]
            /\ UNCHANGED <<engineVars, submitted, summary, ecb, event, first_rate, callers>>

\* engine.process_all(events)
ProcessAllPrefetched ==
    \E objs \in PrefetchLists :
        \E r \in {process_all_lazy(Engine, objs, _rate_cache, ecb)} :
            /\ Become(r.eng)
            /\ _rate_cache' = r.cache
            /\ last' = Call("process_all", objs, r.error)
            /\ returned' = Returned("process_all", 0,
                                    IF r.error.kind = "none"
                                    THEN <<r.eng.processed_events>> ELSE <<>>)
            /\ trace' = [fetch |-> r.fetch, get_rate |-> r.get_rate]
            /\ UNCHANGED <<submitted, summary, ecb, event, first_rate, callers>>

NextPrefetch == Prefetch \/ ProcessAllPrefetched \/ ResolverClearCache \/ Outage

SpecPrefetch == InitPrefetch /\ [][NextPrefetch]_vars

\* The dates of the events of the last prefetch_ecb_rates call that were
\* constructed without fx_rate
DatesWithoutRate ==
    {last'.events[i].event_date :
        i \in {k \in DOMAIN last'.events : last'.events[k].fx_rate = None}}

(***************************************************************************)
(* C39. Prefetch then process: prefetch_ecb_rates(events) makes no request *)
(* when every event has an explicit fx_rate, and otherwise one request,    *)
(* for the period from 10 days before the earliest to the latest date of   *)
(* the events without one; when it has succeeded, a process_all on the     *)
(* same events that follows it, whether the service is up or down by then, *)
(* makes no request and does not fail with the lookup error or the fetch   *)
(* error.                                                                  *)
(***************************************************************************)
PrefetchThenProcess ==
    [][/\ (last'.op = "prefetch_ecb_rates" /\ ecb' = ecb)
          => IF DatesWithoutRate = {}
             THEN trace'.fetch = 0 /\ trace'.requests = <<>> /\ last'.error.kind = "none"
             ELSE /\ trace'.fetch = 1
                  /\ \E lo, hi \in DatesWithoutRate :
                        /\ \A x \in DatesWithoutRate : lo <= x /\ x <= hi
                        /\ trace'.requests = <<(<<lo - BufferDays, hi>>)>>
       /\ (/\ last.op = "prefetch_ecb_rates"
           /\ last.error.kind = "none"
           /\ last'.op = "process_all"
           /\ last'.events = last.events)
          => /\ trace'.fetch = 0
             /\ last'.error.kind \notin {"NoRateAvailable", "FetchFailed"}]_vars

\* A process_all on two events without fx_rate, of the two dates, that
\* succeeded without a request, the rates coming from the cache: the service
\* has a publication for the earlier date only, so that a lookup of the later
\* date by get_rate would have found nothing; the entry for it is the one the
\* prefetch_ecb_rates call before had made.
PrefetchThenProcessWitness ==
    /\ last.op = "process_all"
    /\ Succeeded
    /\ Len(last.events) = 2
    /\ \A i \in DOMAIN last.events : last.events[i].fx_rate = None
    /\ {last.events[1].event_date, last.events[2].event_date} = PrefetchDates
    /\ DOMAIN ecb.obs = {Date(1, 1) - WindowDays - 1}
    /\ trace = [fetch |-> 0, get_rate |-> 2]
    /\ Len(processed_events) = 2
    /\ PrefetchDates \subseteq DOMAIN _rate_cache

====
